---------------------------- MODULE Spec2Model ----------------------------
(***************************************************************************)
(* A model of DOFSearcher (src/src/tools/dof_search.py): the multi-        *)
(* strategy search of the Diario Oficial de la Federacion, its result      *)
(* extractor, its deduplicator and its network operations.                 *)
(*                                                                         *)
(* Strings are TLA+ strings; a character is a string of length 1.          *)
(* An Optional[T] value is a sequence: <<>> is None, <<v>> is the value v. *)
(* One call of one public method is in progress at a time (the code is     *)
(* single-threaded and synchronous); op names it and pc is its position.   *)
(***************************************************************************)
EXTENDS Integers, Sequences, FiniteSets, TLC

VARIABLES
    op,             \* the public method being executed, "idle" before any call
    pc,             \* the position inside that method
    query,          \* search_legislation: the query argument
    date_from,      \* search_legislation: the date_from argument (Optional)
    date_to,        \* search_legislation: the date_to argument (Optional)
    limit,          \* search_legislation / get_latest_publications: limit
    url,            \* get_document_content: the url argument
    endpoint_i,     \* _search_dof_direct: index of the endpoint of the for loop
    dof_results,    \* search_legislation: the local dof_results
    web_results,    \* search_legislation: the local web_results
    known_results,  \* search_legislation: the local known_results
    results,        \* search_legislation: the local results
    ret,            \* the list of results the call returned
    content,        \* the string get_document_content returned
    raised,         \* TRUE when an exception left the public method
    calls,          \* the private strategy methods invoked by the call, in order
    log,            \* time.sleep and session.get events of the call, in order
    dedup_in,       \* _remove_duplicates called on its own: its argument
    clean_in,       \* _clean_document_content called on its own: its argument
    metadata,       \* the dict get_document_metadata returned
    caller,         \* the public method that called search_legislation, "" if none
    args,           \* the arguments of that method
    queries,        \* search_constitution / search_codigo: the local queries
    query_i,        \* the index in queries of the query being searched
    all_results,    \* search_constitution / search_codigo: the local all_results
    document_type,  \* search_legislation: the document_type argument (Optional)
    searched,       \* the queries that method has given search_legislation, in order
    searcher,       \* the attributes DOFSearcher.__init__ gives the searcher
    earlier,        \* the method called just before this call, see RecordsEarlier
    parse_in,       \* _parse_dof_search_results called on its own: its page (Optional)
    contract_terms, \* analyze_contract_validity: the contract_terms argument
    analysis,       \* the dict analyze_contract_validity returned (Optional)
    tool,           \* handle_call_tool: the name argument, "" if it is not running
    arguments,      \* handle_call_tool: the arguments argument
    reply           \* the text of the TextContent handle_call_tool returned (Optional)

vars == <<op, pc, query, date_from, date_to, limit, url, endpoint_i,
          dof_results, web_results, known_results, results, ret, content,
          raised, calls, log, dedup_in, clean_in, metadata, caller, args,
          queries, query_i, all_results, document_type, searched, searcher,
          earlier, parse_in, contract_terms, analysis, tool, arguments, reply>>

\* the searcher and the call made before this one: no step of a call
\* changes them
self_vars == <<searcher, earlier>>
\* the variables of the methods that call search_legislation, and the
\* argument only they give it
caller_vars ==
    <<caller, args, queries, query_i, all_results, document_type, searched,
      tool, arguments, reply>>
\* the variables of the methods that make no request
pure_vars == <<clean_in, metadata, parse_in, contract_terms, analysis>>

----------------------------------------------------------------------------
(* Bounds of the model.                                                    *)

\* limit arguments are drawn from 0..MaxLimit
MaxLimit == 3
\* the lists handed to _remove_duplicates on its own have at most MaxDedupLen items
MaxDedupLen == 3
\* a text handed to the cleaner gets no further piece once it is this long
MaxCleanLen == 2
\* contract_terms arguments hold at most MaxTerms terms
MaxTerms == 2

----------------------------------------------------------------------------
(* Python str and list primitives.                                         *)

None == <<>>
Some(v) == <<v>>

\* s[i-1:j] of a string, positions counted from 1 and cut at the ends of s
Str(s, i, j) ==
    IF i > Len(s) \/ j < i THEN ""
    ELSE SubSeq(s, i, IF j < Len(s) THEN j ELSE Len(s))

Char(s, i) == Str(s, i, i)

UpperChars == "ABCDEFGHIJKLMNOPQRSTUVWXYZÁÉÍÓÚÑÜ"
LowerChars == "abcdefghijklmnopqrstuvwxyzáéíóúñü"
Digits == "0123456789"

IsDigit(c) == c \in {"0", "1", "2", "3", "4", "5", "6", "7", "8", "9"}

\* str.isspace for one character (the whitespace on which str.split() splits)
IsSpace(c) == c \in {" ", "\t", "\n", "\r"}

\* the letters that have two cases, as (upper, lower) pairs
CasePairs == {<<Char(UpperChars, i), Char(LowerChars, i)>> : i \in 1..Len(UpperChars)}

LowerOf == [c \in {p[1] : p \in CasePairs} |-> (CHOOSE p \in CasePairs : p[1] = c)[2]]
UpperOf == [c \in {p[2] : p \in CasePairs} |-> (CHOOSE p \in CasePairs : p[2] = c)[1]]

LowerChar(c) == IF c \in DOMAIN LowerOf THEN LowerOf[c] ELSE c
UpperChar(c) == IF c \in DOMAIN UpperOf THEN UpperOf[c] ELSE c

\* the characters i..j of s, each lowercased (upper = FALSE) or uppercased
RECURSIVE MapChars(_, _, _, _)
MapChars(s, i, j, upper) ==
    IF i > j THEN ""
    ELSE IF i = j
         THEN (IF upper THEN UpperChar(Char(s, i)) ELSE LowerChar(Char(s, i)))
         ELSE LET m == (i + j) \div 2
              IN  MapChars(s, i, m, upper) \o MapChars(s, m + 1, j, upper)

\* str.lower()
Lower(s) == MapChars(s, 1, Len(s), FALSE)
\* str.upper()
Upper(s) == MapChars(s, 1, Len(s), TRUE)

\* k in s, for strings
Contains(s, k) ==
    \E i \in 1..(Len(s) - Len(k) + 1) : Str(s, i, i + Len(k) - 1) = k

\* s.startswith(p)
StartsWith(s, p) == Str(s, 1, Len(p)) = p

\* s.lstrip(c) for a single character c
RECURSIVE LStrip(_, _)
LStrip(s, c) ==
    IF Len(s) > 0 /\ Char(s, 1) = c THEN LStrip(Str(s, 2, Len(s)), c) ELSE s

\* the items of xs at the positions in keep, from position i on, in order
RECURSIVE Pick(_, _, _)
Pick(xs, i, keep) ==
    IF i > Len(xs) THEN <<>>
    ELSE (IF i \in keep THEN <<xs[i]>> ELSE <<>>) \o Pick(xs, i + 1, keep)

\* the numbers of a finite set, in increasing order
Ascending(S) ==
    [k \in 1..Cardinality(S) |->
        CHOOSE x \in S : Cardinality({y \in S : y < x}) = k - 1]

\* s.split(): the maximal runs of non-whitespace characters, in order
Split(s) ==
    LET black(i) == i >= 1 /\ i <= Len(s) /\ ~IsSpace(Char(s, i))
        starts == {i \in 1..Len(s) : black(i) /\ ~black(i - 1)}
        ends == {j \in 1..Len(s) : black(j) /\ ~black(j + 1)}
        end(i) == CHOOSE j \in ends : j >= i /\ \A k \in ends : k >= i => j <= k
        first == Ascending(starts)
    IN  [w \in 1..Len(first) |-> Str(s, first[w], end(first[w]))]

\* xs[:n], for a list or a string
Slice(xs, n) ==
    IF n >= 0 THEN SubSeq(xs, 1, IF n < Len(xs) THEN n ELSE Len(xs))
    ELSE SubSeq(xs, 1, IF Len(xs) + n > 0 THEN Len(xs) + n ELSE 0)

Range(xs) == {xs[i] : i \in 1..Len(xs)}


\* the decimal digits of a natural number, str(n) for n >= 0
RECURSIVE NatToStr(_)
NatToStr(n) ==
    IF n < 10 THEN Char(Digits, n + 1)
    ELSE NatToStr(n \div 10) \o Char(Digits, (n % 10) + 1)

\* str(n) for an int
IntToStr(n) == IF n < 0 THEN "-" \o NatToStr(0 - n) ELSE NatToStr(n)

DigitVal(c) == (CHOOSE i \in 1..Len(Digits) : Char(Digits, i) = c) - 1

\* int(s) for a non-empty string of decimal digits
RECURSIVE StrToNat(_)
StrToNat(s) ==
    IF Len(s) = 1 THEN DigitVal(s)
    ELSE 10 * StrToNat(Str(s, 1, Len(s) - 1)) + DigitVal(Char(s, Len(s)))

AllDigits(s) == \A i \in 1..Len(s) : IsDigit(Char(s, i))

\* the length of the run of digits of s that starts at position i
RECURSIVE DigitRun(_, _)
DigitRun(s, i) ==
    IF i <= Len(s) /\ IsDigit(Char(s, i)) THEN 1 + DigitRun(s, i + 1) ELSE 0

\* n as at least w decimal digits (the zero padding of strftime)
Pad(n, w) ==
    LET d == NatToStr(n)
    IN  IF Len(d) >= w THEN d ELSE Str("0000", 1, w - Len(d)) \o d

----------------------------------------------------------------------------
(* Dates: a date or datetime is <<year, month, day>>.                      *)

\* date.strftime('%d/%m/%Y')
StrfDMY(d) == Pad(d[3], 2) \o "/" \o Pad(d[2], 2) \o "/" \o Pad(d[1], 4)

\* date.strftime('%Y-%m-%d')
StrfYMD(d) == Pad(d[1], 4) \o "-" \o Pad(d[2], 2) \o "-" \o Pad(d[3], 2)

IsLeap(y) == (y % 4 = 0 /\ y % 100 # 0) \/ y % 400 = 0

DaysIn(y, m) ==
    IF m = 2 THEN (IF IsLeap(y) THEN 29 ELSE 28)
    ELSE IF m \in {4, 6, 9, 11} THEN 30 ELSE 31

\* datetime.strptime(s, '%d/%m/%Y'): Some(date), or None where strptime
\* raises ValueError (the caller swallows it)
Strptime(s) ==
    LET fits(a, b) ==
            /\ Len(s) = a + b + 6
            /\ AllDigits(Str(s, 1, a))
            /\ Char(s, a + 1) = "/"
            /\ AllDigits(Str(s, a + 2, a + 1 + b))
            /\ Char(s, a + b + 2) = "/"
            /\ AllDigits(Str(s, a + b + 3, a + b + 6))
        ok == {ab \in {1, 2} \X {1, 2} : fits(ab[1], ab[2])}
    IN  IF ok = {} THEN None
        ELSE LET ab == CHOOSE x \in ok : TRUE
                 d == StrToNat(Str(s, 1, ab[1]))
                 m == StrToNat(Str(s, ab[1] + 2, ab[1] + 1 + ab[2]))
                 y == StrToNat(Str(s, ab[1] + ab[2] + 3, ab[1] + ab[2] + 6))
             IN  IF y >= 1 /\ m \in 1..12 /\ d \in 1..DaysIn(y, m)
                 THEN Some(<<y, m, d>>) ELSE None

----------------------------------------------------------------------------
(* Regular expressions of the searcher.                                    *)

\* re.search(r'codigo=(\d+)', s): Some(group 1) of the leftmost match, or None
codigo_match(s) ==
    LET hits == {i \in 1..Len(s) :
                    /\ Str(s, i, i + 6) = "codigo="
                    /\ DigitRun(s, i + 7) > 0}
    IN  IF hits = {} THEN None
        ELSE LET i == CHOOSE j \in hits : \A k \in hits : j <= k
             IN  Some(Str(s, i + 7, i + 6 + DigitRun(s, i + 7)))

\* a variant of fecha_match whose group runs to the end of s
fecha_match_to_end(s) ==
    LET hits == {i \in 1..Len(s) :
                    Str(s, i, i + 5) = "fecha=" /\ i + 6 <= Len(s)}
    IN  IF hits = {} THEN None
        ELSE LET i == CHOOSE j \in hits : \A k \in hits : j <= k
             IN  Some(Str(s, i + 6, Len(s)))

\* re.search(r'fecha=([^&]+)', s): Some(group 1) of the leftmost match, or
\* None; the group is the longest run of characters other than "&"
fecha_match(s) ==
    LET hits == {i \in 1..Len(s) :
                    /\ Str(s, i, i + 5) = "fecha="
                    /\ i + 6 <= Len(s)
                    /\ Char(s, i + 6) # "&"}
    IN  IF hits = {} THEN None
        ELSE LET i == CHOOSE j \in hits : \A k \in hits : j <= k
                 stops == {x \in (i + 6)..Len(s) : Char(s, x) = "&"}
                 e == IF stops = {} THEN Len(s)
                      ELSE (CHOOSE x \in stops : \A y \in stops : x <= y) - 1
             IN  Some(Str(s, i + 6, e))

\* re.match(r'\d{1,2}/\d{1,2}/\d{4}', s) is not None: a match at the start of s
date_match(s) ==
    \E a \in {1, 2}, b \in {1, 2} :
        /\ Len(s) >= a + b + 6
        /\ AllDigits(Str(s, 1, a))
        /\ Char(s, a + 1) = "/"
        /\ AllDigits(Str(s, a + 2, a + 1 + b))
        /\ Char(s, a + b + 2) = "/"
        /\ AllDigits(Str(s, a + b + 3, a + b + 6))

----------------------------------------------------------------------------
(* The searcher's configuration (DOFSearcher.__init__).                    *)

base_url == "https://www.dof.gob.mx"

\* seconds slept before each request
request_delay == 3

search_endpoints ==
    << base_url \o "/busquedas.php",
       base_url \o "/busquedaAvanzada.php",
       base_url \o "/busqueda.php" >>

----------------------------------------------------------------------------
(* DOFSearchResult.                                                        *)

DOFSearchResult(title, date, u, summary, type, codigo, publication_date) ==
    [title |-> title, date |-> date, url |-> u, summary |-> summary,
     type |-> type, codigo |-> codigo, content |-> None, keywords |-> None,
     publication_date |-> publication_date]

----------------------------------------------------------------------------
(* The static tables of the discovery and knowledge-base strategies.       *)

\* _extract_dof_urls_from_web_search: the local known_urls
known_urls ==
    << [url   |-> "https://dof.gob.mx/nota_detalle.php?codigo=5593045&fecha=08/05/2020",
        title |-> "DECRETO por el que se reforma y adiciona el artículo 4o. de la Constitución Política",
        date  |-> "08/05/2020",
        type  |-> "DECRETO"],
       [url   |-> "https://www.dof.gob.mx/nota_detalle.php?codigo=5738985&fecha=15/09/2024",
        title |-> "DECRETO por el que se reforman diversas disposiciones constitucionales",
        date  |-> "15/09/2024",
        type  |-> "DECRETO"],
       [url   |-> "https://www.dof.gob.mx/nota_detalle.php?codigo=5359649&fecha=10/09/2014",
        title |-> "ACUERDO por el que se aprueba la modificación a la estructura orgánica",
        date  |-> "10/09/2014",
        type  |-> "ACUERDO"] >>

\* _get_known_constitutional_documents: the local constitutional_docs
constitutional_docs ==
    << DOFSearchResult(
           "DECRETO por el que se reforma y adiciona el artículo 4o. de la Constitución Política de los Estados Unidos Mexicanos",
           "08/05/2020",
           "https://dof.gob.mx/nota_detalle.php?codigo=5593045&fecha=08/05/2020",
           "Se reforma el párrafo cuarto y se adicionan párrafos al artículo 4º constitucional en materia de derechos humanos.",
           "DECRETO", Some("5593045"), Some(<<2020, 5, 8>>)),
       DOFSearchResult(
           "DECRETO por el que se reforman, adicionan y derogan diversas disposiciones del artículo 2o. de la Constitución",
           "30/09/2024",
           "https://www.dof.gob.mx/nota_detalle.php?codigo=5738000&fecha=30/09/2024",
           "Reforma al artículo 2º constitucional en materia de Pueblos y Comunidades Indígenas y Afromexicanos.",
           "DECRETO", Some("5738000"), Some(<<2024, 9, 30>>)),
       DOFSearchResult(
           "DECRETO por el que se reforma el Artículo 4o. de la Constitución Política (1992)",
           "28/01/1992",
           "https://www.dof.gob.mx/nota_detalle.php?codigo=4646755&fecha=28/01/1992",
           "Reforma histórica al artículo 4º constitucional durante el gobierno de Carlos Salinas de Gortari.",
           "DECRETO", Some("4646755"), Some(<<1992, 1, 28>>)) >>

\* _get_fallback_latest_publications: the local fallback_docs
fallback_docs ==
    << DOFSearchResult(
           "DECRETO por el que se fortalecen los procesos de búsqueda de personas desaparecidas",
           "18/03/2025",
           "https://www.dof.gob.mx/nota_detalle.php?codigo=5752331&fecha=18/03/2025",
           "Decreto presidencial para fortalecer los procesos de búsqueda de personas desaparecidas y no localizadas.",
           "DECRETO", Some("5752331"), None),
       DOFSearchResult(
           "Estructura ocupacional de recursos aprobados en servicios personales",
           "28/02/2025",
           "https://www.dof.gob.mx/nota_detalle.php?codigo=5750590&fecha=28/02/2025",
           "Estructura ocupacional con integración de recursos aprobados en el capítulo de servicios personales.",
           "ACUERDO", Some("5750590"), None) >>

\* the trigger terms of the knowledge-base strategy (search_legislation)
trigger_keywords == <<"constitución", "artículo 4", "constitucional">>

----------------------------------------------------------------------------
(* Generic list helpers.                                                   *)

\* any(keyword in text for keyword in keywords)
AnyKeywordIn(keywords, text) ==
    \E i \in 1..Len(keywords) : Contains(text, keywords[i])

----------------------------------------------------------------------------
(* The discovery strategy.                                                 *)

\* _extract_dof_urls_from_web_search(query)
_extract_dof_urls_from_web_search(q) ==
    LET keywords == Split(Lower(q))
        relevant(url_info) == AnyKeywordIn(keywords, Lower(url_info.title))
    IN  Pick(known_urls, 1,
             {i \in 1..Len(known_urls) : relevant(known_urls[i])})

\* a variant of _create_result_from_url that reads the title from a key the
\* url table does not have
create_result_without_title(url_info) ==
    DOFSearchResult("", url_info.date, url_info.url, "",
                    url_info.type, codigo_match(url_info.url),
                    IF url_info.date # "" THEN Strptime(url_info.date) ELSE None)

\* _create_result_from_url(url_info); url_info has no 'summary' key
_create_result_from_url(url_info) ==
    DOFSearchResult(url_info.title, url_info.date, url_info.url, "",
                    url_info.type, codigo_match(url_info.url),
                    IF url_info.date # "" THEN Strptime(url_info.date) ELSE None)

\* the search expression _search_via_web_engines builds
dof_query(q, from, to) ==
    ("site:dof.gob.mx \"" \o q \o "\"")
    \o (IF from # None /\ to # None
        THEN " after:" \o StrfYMD(from[1]) \o " before:" \o StrfYMD(to[1])
        ELSE "")

\* _search_via_web_engines(query, date_from, date_to, limit)
_search_via_web_engines(q, from, to, lim) ==
    LET found == _extract_dof_urls_from_web_search(dof_query(q, from, to))
        head == Slice(found, lim)
    IN  [i \in 1..Len(head) |-> _create_result_from_url(head[i])]

----------------------------------------------------------------------------
(* The knowledge-base strategy.                                            *)

\* _get_known_constitutional_documents(query)
_get_known_constitutional_documents(q) ==
    LET keywords == Split(Lower(q))
        relevant(doc) ==
            LET title_lower == Lower(doc.title)
                summary_lower == Lower(doc.summary)
            IN  \E i \in 1..Len(keywords) :
                    \/ Contains(title_lower, keywords[i])
                    \/ Contains(summary_lower, keywords[i])
    IN  Pick(constitutional_docs, 1,
             {i \in 1..Len(constitutional_docs) : relevant(constitutional_docs[i])})

\* any(keyword in query.lower() for keyword in [...]) of search_legislation
has_trigger(q) == AnyKeywordIn(trigger_keywords, Lower(q))

----------------------------------------------------------------------------
(* The result extractor.  An HTML element is [href, text, cells]: href is  *)
(* the href of its first <a href>, None when it has none; text is that     *)
(* link's stripped text; cells are the stripped texts of its td, div and   *)
(* span descendants in document order.                                     *)

Element(href, text, cells) == [href |-> href, text |-> text, cells |-> cells]

doc_type_tokens == <<"DECRETO", "LEY", "ACUERDO", "REGLAMENTO">>

\* a variant of the summary that is cut to 200 characters with no mark
summary_cut_bare(text) == Slice(text, 200)

\* text[:200] + "..." if len(text) > 200 else text
summary_of(text) ==
    IF Len(text) > 200 THEN Slice(text, 200) \o "..." ELSE text

\* the for loop over cells of _extract_result_from_element, from cell i on;
\* acc holds the locals doc_type, date_str and summary
RECURSIVE scan_cells(_, _, _)
scan_cells(cells, i, acc) ==
    IF i > Len(cells) THEN acc
    ELSE LET text == cells[i]
             doc_type == IF AnyKeywordIn(doc_type_tokens, Upper(text))
                         THEN Upper(text) ELSE acc.doc_type
             date_str == IF date_match(text) THEN text ELSE acc.date_str
             summary == IF Len(text) > 50 /\ acc.summary = ""
                        THEN summary_of(text) ELSE acc.summary
         IN  scan_cells(cells, i + 1,
                        [doc_type |-> doc_type, date_str |-> date_str,
                         summary |-> summary])

\* _extract_result_from_element(element): Some(result) or None
_extract_result_from_element(element) ==
    IF element.href = None THEN None
    ELSE LET href == element.href[1]
             u == IF StartsWith(href, "http") THEN href
                  ELSE base_url \o "/" \o LStrip(href, "/")
             f == scan_cells(element.cells, 1,
                             [doc_type |-> "", date_str |-> "", summary |-> ""])
         IN  Some(DOFSearchResult(element.text, f.date_str, u, f.summary,
                                  IF f.doc_type # "" THEN f.doc_type ELSE "DOCUMENTO",
                                  codigo_match(u), None))

\* [r for e in elements if (r := _extract_result_from_element(e))], from i on
RECURSIVE extract_all(_, _)
extract_all(elements, i) ==
    IF i > Len(elements) THEN <<>>
    ELSE _extract_result_from_element(elements[i]) \o extract_all(elements, i + 1)

(* A page is what BeautifulSoup makes of a response body: sel[k] is the    *)
(* list soup.select(result_patterns[k]) returns, rows the tr elements of   *)
(* all its tables in document order; bad is TRUE when parsing raises.      *)

result_patterns ==
    <<"table.resultados tr", ".resultado-item", ".documento-resultado",
      "div[class*=\"resultado\"]">>

\* a variant of _parse_dof_search_results that goes on to the next pattern
\* when a pattern gives no result
parse_until_results(page) ==
    IF page.bad THEN <<>>
    ELSE LET gave == {k \in 1..Len(result_patterns) :
                         extract_all(page.sel[k], 1) # <<>>}
         IN  IF gave = {} THEN <<>>
             ELSE LET k == CHOOSE m \in gave : \A n \in gave : m <= n
                  IN  extract_all(page.sel[k], 1)

\* _parse_dof_search_results(html)
_parse_dof_search_results(page) ==
    IF page.bad THEN <<>>
    ELSE LET matched == {k \in 1..Len(result_patterns) : page.sel[k] # <<>>}
         IN  IF matched = {} THEN <<>>
             ELSE LET k == CHOOSE m \in matched : \A n \in matched : m <= n
                  IN  extract_all(page.sel[k], 1)

----------------------------------------------------------------------------
(* The network: what the site may answer to one request.                   *)

Page(sel, rows, bad) == [sel |-> sel, rows |-> rows, bad |-> bad]

HeaderRow == Element(None, "", <<"Tipo", "Fecha", "Documento">>)

RowLey ==
    Element(Some("/nota_detalle.php?codigo=123"),
            "DECRETO por el que se expide la Ley General de Aguas",
            <<"Decreto", "08/05/2020">>)

RowNom ==
    Element(Some("https://www.dof.gob.mx/nota_detalle.php?codigo=456"),
            "NOM-001 Norma Oficial Mexicana",
            <<"Norma", "9/6/2021 edición matutina">>)

\* the same publication as RowLey, its href and title in another case
RowLeyUpper ==
    Element(Some("/NOTA_DETALLE.PHP?CODIGO=123"),
            "Decreto por el que se expide la LEY GENERAL DE AGUAS",
            <<"Decreto">>)

\* the publication the discovery table lists first, with the same url and title
ItemKnown == Element(Some(known_urls[1].url), known_urls[1].title, <<>>)

\* a row of the page furniture: the link of the login form
RowUsuario == Element(Some("/login.php"), "Usuario", <<"Usuario">>)

\* a row whose link holds an image and no text
RowNoText == Element(Some("index.php"), "", <<>>)

\* a row whose href is a relative path that begins with the letters http
RowHttpRelative ==
    Element(Some("httpdocs/nota_aclaratoria.html"),
            "Nota aclaratoria al acuerdo", <<"Acuerdo">>)

\* a row whose href is relative to the page
RowRelative ==
    Element(Some("nota_detalle.php?codigo=789"),
            "Aviso de consulta", <<"Aviso">>)

\* a row with a cell of more than 200 characters before one of 51 to 200
CellLong ==
    "ACUERDO por el que se dan a conocer las reglas de operac" \o
    "ion del programa de apoyo a la infraestructura hidroagri" \o
    "cola para el ejercicio fiscal 2021, asi como los formato" \o
    "s y los anexos que deberan presentar los solicitantes an" \o
    "te las oficinas de la Comision"
CellMid ==
    "Se reforman diversas disposiciones del Reglamento Interi" \o
    "or de la Secretaria"
RowLong ==
    Element(Some("/nota_detalle.php?codigo=321"),
            "ACUERDO de reglas de operación", <<"09/02/2021", CellLong, CellMid>>)

\* a row whose only long cell has between 51 and 200 characters
RowMid ==
    Element(Some("/nota_detalle.php?codigo=654"),
            "Reglamento Interior de la Secretaría", <<"Reglamento", CellMid>>)

\* a results table: a header row without a link and two result rows
PageTable == Page(<< <<HeaderRow, RowLey, RowNom>>, <<>>, <<>>, <<>> >>,
                  <<HeaderRow, RowLey, RowNom>>, FALSE)

\* four result items, two of them one publication in different case; a later
\* pattern matches too
PageItems == Page(<< <<>>, <<ItemKnown, RowLey, RowLeyUpper, RowNom>>, <<>>,
                     <<RowNom>> >>,
                  <<>>, FALSE)

\* one result, which the discovery table lists too
PageOne == Page(<< <<>>, <<>>, <<ItemKnown>>, <<>> >>, <<>>, FALSE)

\* the first pattern that matches holds no link; a later one holds a result
PageNoLinks == Page(<< <<>>, <<>>, <<HeaderRow>>, <<RowLey>> >>,
                    <<HeaderRow>>, FALSE)

\* a table that holds page furniture and relative links
PageChrome ==
    Page(<< <<RowUsuario, RowNoText, RowHttpRelative, RowRelative>>, <<>>,
            <<>>, <<>> >>,
         <<RowUsuario, RowNoText, RowHttpRelative, RowRelative>>, FALSE)

\* two results with long cells
PageSummaries == Page(<< <<>>, <<RowLong, RowMid>>, <<>>, <<>> >>, <<>>, FALSE)

\* no pattern matches anything
PageEmpty == Page(<< <<>>, <<>>, <<>>, <<>> >>, <<>>, FALSE)

\* a body on which BeautifulSoup raises
PageBad == Page(<< <<>>, <<>>, <<>>, <<>> >>, <<>>, TRUE)

Pages ==
    {PageTable, PageItems, PageOne, PageChrome, PageNoLinks, PageSummaries,
     PageEmpty, PageBad}

\* session.get raised (error is the exception), or returned a response
Raises(e) == [error |-> Some(e), status |-> 0, page |-> PageEmpty]
Http(status, page) == [error |-> None, status |-> status, page |-> page]

Responses ==
    {Raises("ConnectionError"), Raises("ReadTimeout"), Http(404, PageTable)}
    \cup {Http(200, page) : page \in Pages}

\* the answers to the requests of a search that search_by_type,
\* search_constitution or search_codigo makes: a failure, a page with one
\* result and a page with several
SubSearchResponses ==
    {Raises("ConnectionError"), Http(200, PageOne), Http(200, PageTable)}

\* a variant of endpoint_attempt that never returns from inside the loop
endpoint_attempt_without_return(resp) == None

\* the body of _search_dof_direct's for loop on one response: Some(results)
\* when the method returns them, None when the loop goes on to the next
\* endpoint (the request raised, the status is not 200 or nothing was parsed)
endpoint_attempt(resp) ==
    IF resp.error # None THEN None
    ELSE IF resp.status # 200 THEN None
    ELSE LET parsed == _parse_dof_search_results(resp.page)
         IN  IF parsed # <<>> THEN Some(parsed) ELSE None

\* endpoint_attempt, tabulated over the responses of the model
endpoint_attempts == [resp \in Responses |-> endpoint_attempt(resp)]

\* how a request ended, as the log of the model records it: the request
\* raised, the status was not 200, the page held no result, or it held some
Outcome(resp) ==
    IF resp.error # None THEN "exception"
    ELSE IF resp.status # 200 THEN "status"
    ELSE IF _parse_dof_search_results(resp.page) = <<>> THEN "empty"
    ELSE "results"

outcomes == [resp \in Responses |-> Outcome(resp)]

\* the results the body of a response holds, whatever its status
parsed_pages ==
    [resp \in Responses |->
        IF resp.error = None THEN _parse_dof_search_results(resp.page) ELSE <<>>]

----------------------------------------------------------------------------
(* The queries of search_by_type, search_constitution and search_codigo.   *)

\* dict.get(key, default) for a dict given as its (key, value) pairs
DictGet(pairs, key, default) ==
    LET at == {i \in 1..Len(pairs) : pairs[i][1] = key}
    IN  IF at = {} THEN default ELSE pairs[CHOOSE i \in at : TRUE][2]

type_mapping ==
    << <<"decreto", "DECRETO">>, <<"ley", "LEY">>,
       <<"reglamento", "REGLAMENTO">>, <<"acuerdo", "ACUERDO">>,
       <<"norma", "NORMA Oficial Mexicana">>, <<"nom", "NOM">>,
       <<"constitución", "CONSTITUCIÓN">>, <<"constitucional", "CONSTITUCIÓN">>,
       <<"código", "CÓDIGO">>, <<"codigo", "CÓDIGO">> >>

\* a variant of doc_type_normalized that looks doc_type up as it is given
doc_type_normalized_as_given(doc_type) ==
    DictGet(type_mapping, doc_type, Upper(doc_type))

\* type_mapping.get(doc_type.lower(), doc_type.upper())
doc_type_normalized(doc_type) ==
    DictGet(type_mapping, Lower(doc_type), Upper(doc_type))

\* the search_query of search_by_type; fragment is its query argument, None
\* or a string
search_query(doc_type, fragment) ==
    IF fragment # None /\ fragment[1] # ""
    THEN doc_type_normalized(doc_type) \o " " \o fragment[1]
    ELSE doc_type_normalized(doc_type)

\* the queries of search_constitution(article); article is None or a string
constitution_queries(article) ==
    IF article # None /\ article[1] # ""
    THEN << "Constitución Política artículo " \o article[1],
            "CPEUM artículo " \o article[1],
            "artículo " \o article[1] \o " constitucional",
            "reforma artículo " \o article[1] \o " constitución" >>
    ELSE << "Constitución Política Estados Unidos Mexicanos" >>

codigo_mapping ==
    << <<"civil", "Código Civil Federal">>, <<"penal", "Código Penal Federal">>,
       <<"comercio", "Código de Comercio">>,
       <<"fiscal", "Código Fiscal de la Federación">>,
       <<"trabajo", "Ley Federal del Trabajo">>,
       <<"procedimientos", "Código Federal de Procedimientos">> >>

\* codigo_mapping.get(codigo_type.lower(), f'Código {codigo_type}')
codigo_name(codigo_type) ==
    DictGet(codigo_mapping, Lower(codigo_type), "Código " \o codigo_type)

\* the queries of search_codigo(codigo_type, article)
codigo_queries(codigo_type, article) ==
    IF article # None /\ article[1] # ""
    THEN << codigo_name(codigo_type) \o " artículo " \o article[1],
            "artículo " \o article[1] \o " "
                \o Lower(codigo_name(codigo_type)) >>
    ELSE << codigo_name(codigo_type) >>

\* the limit search_constitution and search_codigo give each sub-query
sub_query_limit == 5

\* the number of results search_constitution and search_codigo return at most
merged_limit == 20
\* arguments.get("limit", 20) of handle_call_tool's search_dof branch
default_limit == 20

----------------------------------------------------------------------------
(* The arguments the calls are made with.                                  *)

Queries ==
    {"constitución artículo 4", "Constitución", "acuerdo por el",
     "DECRETO constitucional por", "ley"}

Limits == 0..MaxLimit

\* the arguments of search_by_type: doc_type in several cases, known to
\* type_mapping or not, and its query argument
DocTypes == {"ley", "Norma", "NOM", "Codigo", "CÓDIGO", "circular"}
Fragments == {None, Some(""), Some("aguas nacionales")}

\* the arguments of search_constitution and search_codigo
Articles == {None, Some(""), Some("4")}
CodigoTypes == {"Penal", "trabajo", "Militar"}

\* the queries search_legislation gets from the three methods above
SubQueries ==
    {search_query(t, f) : t \in DocTypes, f \in Fragments}
    \cup UNION {Range(constitution_queries(a)) : a \in Articles}
    \cup UNION {Range(codigo_queries(t, a)) : t \in CodigoTypes, a \in Articles}

AllQueries == Queries \cup SubQueries

\* doc_type_normalized, search_query, constitution_queries and
\* codigo_queries, tabulated over the arguments of the model
type_labels == [t \in DocTypes |-> doc_type_normalized(t)]
search_queries == [t \in DocTypes, f \in Fragments |-> search_query(t, f)]
queries_of_constitution == [a \in Articles |-> constitution_queries(a)]
queries_of_codigo ==
    [t \in CodigoTypes, a \in Articles |-> codigo_queries(t, a)]

\* the limits search_legislation and its strategies are given
AllLimits == Limits \cup 0..sub_query_limit \cup 0..default_limit

\* (date_from, date_to)
DateRanges ==
    {<<None, None>>, <<Some(<<2020, 1, 1>>), Some(<<2020, 12, 31>>)>>}

\* the strategies are pure functions of their arguments: they are tabulated
\* over the arguments of the model

\* _search_via_web_engines[query, (date_from, date_to), limit]
search_via_web_engines ==
    [q \in AllQueries, range \in DateRanges, lim \in AllLimits |->
        _search_via_web_engines(q, range[1], range[2], lim)]

\* _get_known_constitutional_documents[query]
known_constitutional_documents ==
    [q \in AllQueries |-> _get_known_constitutional_documents(q)]

\* has_trigger[query]
query_has_trigger == [q \in AllQueries |-> has_trigger(q)]

----------------------------------------------------------------------------
(* The deduplicator.                                                       *)

\* the results the model can hold: those parsed from the pages, those of the
\* two static strategies, and the items of the lists _remove_duplicates is
\* called on by itself
DedupPool ==
    { DOFSearchResult(p[1], "", p[2], "", "DOCUMENTO", None, None) :
        p \in { <<"Ley", "http://a">>, <<"LEY", "HTTP://A">>,
                <<"b|Ley", "http://a">>, <<"Ley", "http://a|b">> } }

AllResults ==
    UNION { Range(parsed_pages[resp]) : resp \in Responses }
    \cup UNION { Range(search_via_web_engines[q, range, lim]) :
                   q \in AllQueries, range \in DateRanges, lim \in AllLimits }
    \cup Range(constitutional_docs)
    \cup Range(fallback_docs)
    \cup DedupPool

\* the key of _remove_duplicates: f"{result.url.lower()}|{result.title.lower()}"
dedup_key(result) == Lower(result.url) \o "|" \o Lower(result.title)

\* dedup_key, tabulated over the results of the model
dedup_keys == [r \in AllResults |-> dedup_key(r)]

\* a variant of remove_duplicates_loop that deletes a duplicate from the list
\* it is iterating over, so that the item after a duplicate is never examined
RECURSIVE remove_while_iterating(_, _, _)
remove_while_iterating(rs, i, seen) ==
    IF i > Len(rs) THEN <<>>
    ELSE LET key == dedup_keys[rs[i]]
         IN  IF key \notin seen
             THEN <<rs[i]>> \o remove_while_iterating(rs, i + 1, seen \cup {key})
             ELSE (IF i < Len(rs) THEN <<rs[i + 1]>> ELSE <<>>)
                  \o remove_while_iterating(rs, i + 2, seen)

\* the for loop of _remove_duplicates from item i on, seen being the keys seen
RECURSIVE remove_duplicates_loop(_, _, _)
remove_duplicates_loop(rs, i, seen) ==
    IF i > Len(rs) THEN <<>>
    ELSE LET key == dedup_keys[rs[i]]
         IN  IF key \notin seen
             THEN <<rs[i]>> \o remove_duplicates_loop(rs, i + 1, seen \cup {key})
             ELSE remove_duplicates_loop(rs, i + 1, seen)

\* a variant of _remove_duplicates in which the last item of a key wins
remove_duplicates_keep_last(rs) ==
    Pick(rs, 1, {i \in 1..Len(rs) :
                    \A j \in (i + 1)..Len(rs) : dedup_keys[rs[j]] # dedup_keys[rs[i]]})

\* _remove_duplicates(results)
_remove_duplicates(rs) == remove_duplicates_loop(rs, 1, {})

----------------------------------------------------------------------------
(* The content cleaner.                                                    *)

\* the first position p >= i at which k occurs in s, 0 when there is none
Find(s, k, i) ==
    LET at == {p \in i..(Len(s) - Len(k) + 1) : Str(s, p, p + Len(k) - 1) = k}
    IN  IF at = {} THEN 0 ELSE CHOOSE p \in at : \A q \in at : p <= q

\* s[i-1:].replace(old, new), for a non-empty old
RECURSIVE ReplaceFrom(_, _, _, _)
ReplaceFrom(s, i, old, new) ==
    LET p == Find(s, old, i)
    IN  IF p = 0 THEN Str(s, i, Len(s))
        ELSE Str(s, i, p - 1) \o new \o ReplaceFrom(s, p + Len(old), old, new)

\* s.replace(old, new)
Replace(s, old, new) == ReplaceFrom(s, 1, old, new)

\* the replacements dict, in insertion order; the literal gives the key
\* 'â€"' twice, so that it keeps its first position and its second value.
\* The second character of the third key is U+00AD.  Strings of this module
\* are Latin-1, so five characters of the table are written as others that
\* occur nowhere else: U+0153 as "½", U+20AC as "¤", U+2122 as "®", U+2013
\* as "¬" and U+2022 as "·".
replacements ==
    << <<"Ã¡", "á">>, <<"Ã©", "é">>, <<"Ã­", "í">>, <<"Ã³", "ó">>, <<"Ãº", "ú">>,
       <<"Ã±", "ñ">>, <<"ÃÃ±", "ñ">>, <<"Ã½", "Ü">>, <<"Ã¼", "ü">>,
       <<"â¤®", "'">>, <<"â¤½", "\"">>, <<"â¤", "\"">>, <<"â¤\"", "¬">>,
       <<"Â°", "°">>, <<"Â", "">>, <<"â¤¢", "·">> >>

\* for old, new in replacements.items(): text = text.replace(old, new),
\* from entry k on (the text of each pass is bound to a variable, so that it
\* is a value when the next pass starts)
RECURSIVE replace_all(_, _)
replace_all(text, k) ==
    IF k > Len(replacements) THEN text
    ELSE CHOOSE out \in
             {replace_all(t, k + 1) :
                 t \in {Replace(text, replacements[k][1], replacements[k][2])}} :
             TRUE

\* words[i..j] joined by sep
RECURSIVE Join(_, _, _, _)
Join(words, i, j, sep) ==
    IF i > j THEN ""
    ELSE IF i = j THEN words[i]
    ELSE LET m == (i + j) \div 2
         IN  Join(words, i, m, sep) \o sep \o Join(words, m + 1, j, sep)

\* re.sub(r'\s+', ' ', text)
collapse_whitespace(text) ==
    LET words == Split(text)
    IN  (IF Len(text) > 0 /\ IsSpace(Char(text, 1)) THEN " " ELSE "")
        \o Join(words, 1, Len(words), " ")
        \o (IF Len(text) > 0 /\ IsSpace(Char(text, Len(text))) /\ words # <<>>
            THEN " " ELSE "")

\* re.sub(r'\n\s*\n', '\n\n', text), from position i on: a match starts at a
\* line feed and ends at the last line feed of the whitespace that follows it
RECURSIVE normalize_blank_lines(_, _)
normalize_blank_lines(text, i) ==
    LET p == Find(text, "\n", i)
    IN  IF p = 0 THEN Str(text, i, Len(text))
        ELSE LET black == {x \in (p + 1)..Len(text) : ~IsSpace(Char(text, x))}
                 e == IF black = {} THEN Len(text)
                      ELSE (CHOOSE x \in black : \A y \in black : x <= y) - 1
                 feeds == {x \in (p + 1)..e : Char(text, x) = "\n"}
             IN  IF feeds = {}
                 THEN Str(text, i, e) \o normalize_blank_lines(text, e + 1)
                 ELSE LET q == CHOOSE x \in feeds : \A y \in feeds : y <= x
                      IN  Str(text, i, p - 1) \o "\n\n"
                          \o normalize_blank_lines(text, q + 1)

\* re.sub(a + '.*?' + b, '', text, flags=re.IGNORECASE | re.DOTALL) from
\* position i on, for literal a and b given in lower case; low is text.lower()
RECURSIVE remove_lazy(_, _, _, _, _)
remove_lazy(text, low, i, a, b) ==
    LET starts == {p \in i..(Len(text) - Len(a) + 1) :
                      /\ Str(low, p, p + Len(a) - 1) = a
                      /\ Find(low, b, p + Len(a)) # 0}
    IN  IF starts = {} THEN Str(text, i, Len(text))
        ELSE LET p == CHOOSE x \in starts : \A y \in starts : x <= y
                 q == Find(low, b, p + Len(a))
             IN  Str(text, i, p - 1)
                 \o remove_lazy(text, low, q + Len(b), a, b)

\* the irrelevant_patterns, each as the literals before and after its '.*?'
irrelevant_patterns ==
    << <<"usuario clave entrar", "usuario">>, <<"¿olvidó su", "">>,
       <<"javascript", "disabled">>, <<"cookies", "navegador">> >>

\* for pattern in irrelevant_patterns: text = re.sub(pattern, '', text, ...),
\* from pattern k on
RECURSIVE remove_irrelevant(_, _)
remove_irrelevant(text, k) ==
    IF k > Len(irrelevant_patterns) THEN text
    ELSE CHOOSE out \in
             {remove_irrelevant(t, k + 1) :
                 t \in {remove_lazy(text, Lower(text), 1,
                                    irrelevant_patterns[k][1],
                                    irrelevant_patterns[k][2])}} :
             TRUE

\* str.strip()
Strip(s) ==
    LET black == {i \in 1..Len(s) : ~IsSpace(Char(s, i))}
    IN  IF black = {} THEN ""
        ELSE Str(s, CHOOSE i \in black : \A j \in black : i <= j,
                    CHOOSE i \in black : \A j \in black : j <= i)

\* _clean_document_content(text)
_clean_document_content(text) ==
    IF text = "" THEN ""
    ELSE CHOOSE out \in
             {Strip(remove_irrelevant(lines, 1)) :
                 lines \in {normalize_blank_lines(spaced, 1) :
                     spaced \in {collapse_whitespace(replaced) :
                         replaced \in {replace_all(text, 1)}}}} :
             TRUE

----------------------------------------------------------------------------
(* The state machine.                                                      *)

Init ==
    /\ op = "idle"
    /\ pc = "idle"
    /\ query = ""
    /\ date_from = None
    /\ date_to = None
    /\ limit = 0
    /\ url = ""
    /\ endpoint_i = 0
    /\ dof_results = <<>>
    /\ web_results = <<>>
    /\ known_results = <<>>
    /\ results = <<>>
    /\ ret = <<>>
    /\ content = ""
    /\ raised = FALSE
    /\ calls = <<>>
    /\ log = <<>>
    /\ dedup_in = <<>>
    /\ clean_in = ""
    /\ metadata = <<>>
    /\ caller = ""
    /\ args = <<>>
    /\ queries = <<>>
    /\ query_i = 0
    /\ all_results = <<>>
    /\ document_type = None
    /\ searched = <<>>
    /\ searcher = [base_url |-> base_url, request_delay |-> request_delay,
                   search_endpoints |-> search_endpoints]
    /\ earlier = ""
    /\ parse_in = None
    /\ contract_terms = <<>>
    /\ analysis = None
    /\ tool = ""
    /\ arguments = <<>>
    /\ reply = None

\* no call is in progress: the next one may start
Ready == pc \in {"idle", "done"}

\* the calls for which the model records which method was called before
\* them: those that are not searches
RecordsEarlier ==
    {"get_latest_publications", "get_document_content", "get_document_metadata"}

\* a variant of Fresh in which results is an attribute of the searcher that
\* no call clears
FreshButForResults(method, first) ==
    /\ op' = method
    /\ pc' = first
    /\ dof_results' = <<>>
    /\ web_results' = <<>>
    /\ known_results' = <<>>
    /\ results' = results
    /\ ret' = <<>>
    /\ content' = ""
    /\ raised' = FALSE
    /\ log' = <<>>
    /\ dedup_in' = <<>>
    /\ searcher' = searcher
    /\ earlier' = IF method \in RecordsEarlier /\ pc = "done" THEN op ELSE ""

\* the state a call starts from: the arguments and locals of the last call
\* are gone, the searcher is the one the last call left
Fresh(method, first) ==
    /\ searcher' = searcher
    /\ earlier' = IF method \in RecordsEarlier /\ pc = "done" THEN op ELSE ""
    /\ op' = method
    /\ pc' = first
    /\ dof_results' = <<>>
    /\ web_results' = <<>>
    /\ known_results' = <<>>
    /\ results' = <<>>
    /\ ret' = <<>>
    /\ content' = ""
    /\ raised' = FALSE
    /\ log' = <<>>
    /\ dedup_in' = <<>>

\* the call is not made through handle_call_tool
NoTool == tool' = "" /\ arguments' = <<>> /\ reply' = None

\* the call is made by no other method of the searcher
NoMethodCaller ==
    /\ args' = <<>>
    /\ queries' = <<>>
    /\ query_i' = 0
    /\ all_results' = <<>>
    /\ document_type' = None
    /\ searched' = <<>>

\* the call is made by the user of the searcher, not by another method
NoCaller ==
    /\ NoTool
    /\ caller' = ""
    /\ args' = <<>>
    /\ queries' = <<>>
    /\ query_i' = 0
    /\ all_results' = <<>>
    /\ document_type' = None
    /\ searched' = <<>>

\* the call is not one of a method that makes no request
NoReasonerArgs == contract_terms' = <<>> /\ analysis' = None
NoPureArgs ==
    clean_in' = "" /\ metadata' = <<>> /\ parse_in' = None /\ NoReasonerArgs

\* the call is given no search arguments
NoSearchArgs ==
    /\ query' = ""
    /\ date_from' = None
    /\ date_to' = None

\* time.sleep(self.request_delay), as the log records it
SleepEvent == [ev |-> "sleep", secs |-> request_delay]
\* session.get(u, ...), as the log records it, with what was parsed from the
\* response
GetEvent(u, outcome, parsed) ==
    [ev |-> "get", url |-> u, outcome |-> outcome, parsed |-> parsed]

\* the exceptions a request or a parser raises are subclasses of Exception
ExceptionSubclasses ==
    {"ConnectionError", "ReadTimeout", "HTTPError", "ParserRejectedMarkup"}

\* a variant of except_Exception: except requests.ConnectionError as e
except_ConnectionError(e) == e = "ConnectionError"

\* except Exception as e: whether the clause catches e
except_Exception(e) == e \in ExceptionSubclasses

\* a variant of extend that puts the new items in front
extend_at_front(rs, more) == more \o rs

\* list.extend: rs.extend(more)
extend(rs, more) == rs \o more

(* search_legislation(query, date_from, date_to, limit) *)

\* the call, up to the first endpoint of _search_dof_direct's for loop
Call_search_legislation(q, range, lim) ==
    /\ Ready
    /\ Fresh("search_legislation", "direct_sleep")
    /\ NoCaller
    /\ NoPureArgs
    /\ query' = q
    /\ date_from' = range[1]
    /\ date_to' = range[2]
    /\ limit' = lim
    /\ endpoint_i' = 1
    /\ calls' = <<"_search_dof_direct">>
    /\ url' = ""

\* the query parameters _search_dof_direct sends
search_params(q, from, to, lim) ==
    [palabras      |-> q,
     fechaInicial  |-> IF from # None THEN StrfDMY(from[1]) ELSE "",
     fechaFinal    |-> IF to # None THEN StrfDMY(to[1]) ELSE "",
     tipoContenido |-> "Legislacion",
     ordenarPor    |-> "fecha",
     numResultados |-> IntToStr(lim)]

\* a variant of direct_delay that sleeps before a retry only
delay_on_retry(i) == IF i > 1 THEN <<SleepEvent>> ELSE <<>>

\* the sleeps _search_dof_direct makes before the request to endpoint i
direct_delay(i) == <<SleepEvent>>

\* _search_dof_direct: time.sleep(self.request_delay) before the request
DirectSleep ==
    /\ op = "search_legislation"
    /\ pc = "direct_sleep"
    /\ log' = log \o direct_delay(endpoint_i)
    /\ pc' = "direct_get"
    /\ UNCHANGED <<self_vars, caller_vars, pure_vars, op, query, date_from, date_to, limit, url, endpoint_i,
                   dof_results, web_results, known_results, results, ret,
                   content, raised, calls, dedup_in>>

\* _search_dof_direct: the request to the current endpoint and what follows
\* it, up to the next sleep or to the return into search_legislation
DirectGet(resp) ==
    /\ op = "search_legislation"
    /\ pc = "direct_get"
    /\ caller # "" => resp \in SubSearchResponses
    /\ LET got == endpoint_attempts[resp]
       IN  /\ log' = Append(log, GetEvent(searcher.search_endpoints[endpoint_i],
                                          outcomes[resp], parsed_pages[resp]))
           /\ IF resp.error # None /\ ~except_Exception(resp.error[1])
              THEN /\ raised' = TRUE
                   /\ pc' = "done"
                   /\ UNCHANGED <<endpoint_i, dof_results, results>>
              ELSE /\ UNCHANGED raised
                   /\ IF got # None
                      THEN /\ dof_results' = got[1]
                           /\ results' = extend(results, got[1])
                           /\ pc' = "web"
                           /\ UNCHANGED endpoint_i
                      ELSE IF endpoint_i < Len(searcher.search_endpoints)
                           THEN /\ endpoint_i' = endpoint_i + 1
                                /\ pc' = "direct_sleep"
                                /\ UNCHANGED <<dof_results, results>>
                           ELSE /\ dof_results' = <<>>
                                /\ pc' = "web"
                                /\ UNCHANGED <<endpoint_i, results>>
    /\ UNCHANGED <<self_vars, caller_vars, pure_vars, op, query, date_from, date_to, limit, url, web_results,
                   known_results, ret, content, calls, dedup_in>>

\* a variant of web_stage_needed: if len(results) <= limit
web_stage_needed_inclusive(rs, lim) == Len(rs) <= lim

\* if len(results) < limit: the guard of strategy 2
web_stage_needed(rs, lim) == Len(rs) < lim

\* strategy 2 of search_legislation
WebStage ==
    /\ op = "search_legislation"
    /\ pc = "web"
    /\ IF web_stage_needed(results, limit)
       THEN LET found == search_via_web_engines[query, <<date_from, date_to>>,
                                                limit - Len(results)]
            IN  /\ web_results' = found
                /\ results' = extend(results, found)
                /\ calls' = Append(calls, "_search_via_web_engines")
       ELSE UNCHANGED <<web_results, results, calls>>
    /\ pc' = "known"
    /\ UNCHANGED <<self_vars, caller_vars, pure_vars, op, query, date_from, date_to, limit, url, endpoint_i,
                   dof_results, known_results, ret, content, raised, log,
                   dedup_in>>

\* a variant of known_stage_needed that asks for no trigger term
known_stage_needed_whatever_query(rs, lim, q) == Len(rs) < lim

\* if len(results) < limit and any(keyword in query.lower() ...): the guard
\* of strategy 3
known_stage_needed(rs, lim, q) == Len(rs) < lim /\ query_has_trigger[q]

\* strategy 3 of search_legislation
KnownStage ==
    /\ op = "search_legislation"
    /\ pc = "known"
    /\ IF known_stage_needed(results, limit, query)
       THEN LET known == known_constitutional_documents[query]
            IN  /\ known_results' = known
                /\ results' = extend(results, Slice(known, limit - Len(results)))
                /\ calls' = Append(calls, "_get_known_constitutional_documents")
       ELSE UNCHANGED <<known_results, results, calls>>
    /\ pc' = "return"
    /\ UNCHANGED <<self_vars, caller_vars, pure_vars, op, query, date_from, date_to, limit, url, endpoint_i,
                   dof_results, web_results, ret, content, raised, log,
                   dedup_in>>

\* a variant of search_legislation_return without the [:limit]
return_without_truncation(rs, lim) == _remove_duplicates(rs)

\* return self._remove_duplicates(results)[:limit]
search_legislation_return(rs, lim) == Slice(_remove_duplicates(rs), lim)

Return ==
    /\ op = "search_legislation"
    /\ pc = "return"
    /\ ret' = search_legislation_return(results, limit)
    /\ pc' = IF caller = "" THEN "done" ELSE "returned"
    /\ UNCHANGED <<self_vars, caller_vars, pure_vars, op, query, date_from, date_to, limit, url, endpoint_i,
                   dof_results, web_results, known_results, results, content,
                   raised, calls, log, dedup_in>>

(* search_by_type(doc_type, query, limit) *)

\* search_legislation(q, limit=lim) called by another method that has made
\* the searches before, up to the first endpoint of _search_dof_direct's for
\* loop
SubSearch(q, lim, before) ==
    /\ searched' = Append(before, q)
    /\ Fresh("search_legislation", "direct_sleep")
    /\ NoPureArgs
    /\ query' = q
    /\ date_from' = None
    /\ date_to' = None
    /\ limit' = lim
    /\ endpoint_i' = 1
    /\ calls' = <<"_search_dof_direct">>
    /\ url' = ""

\* the call, up to the first endpoint of the search it makes
Call_search_by_type(doc_type, fragment, lim) ==
    /\ Ready
    /\ NoTool
    /\ caller' = "search_by_type"
    /\ args' = <<doc_type, fragment, lim>>
    /\ queries' = <<search_queries[doc_type, fragment]>>
    /\ query_i' = 1
    /\ all_results' = <<>>
    /\ document_type' = Some(type_labels[doc_type])
    /\ SubSearch(search_queries[doc_type, fragment], lim, <<>>)

\* return self.search_legislation(...)
ByTypeReturn ==
    /\ op = "search_legislation"
    /\ pc = "returned"
    /\ caller = "search_by_type"
    /\ op' = caller
    /\ pc' = "done"
    /\ UNCHANGED <<self_vars, caller_vars, pure_vars, query, date_from, date_to, limit,
                   url, endpoint_i, dof_results, web_results, known_results,
                   results, ret, content, raised, calls, log, dedup_in>>

(* search_constitution(article) and search_codigo(codigo_type, article) *)

\* the calls, up to the first endpoint of the first search they make
Call_search_constitution(article) ==
    /\ Ready
    /\ NoTool
    /\ caller' = "search_constitution"
    /\ args' = <<article>>
    /\ queries' = queries_of_constitution[article]
    /\ query_i' = 1
    /\ all_results' = <<>>
    /\ document_type' = None
    /\ SubSearch(queries_of_constitution[article][1], sub_query_limit, <<>>)

Call_search_codigo(codigo_type, article) ==
    /\ Ready
    /\ NoTool
    /\ caller' = "search_codigo"
    /\ args' = <<codigo_type, article>>
    /\ queries' = queries_of_codigo[codigo_type, article]
    /\ query_i' = 1
    /\ all_results' = <<>>
    /\ document_type' = None
    /\ SubSearch(queries_of_codigo[codigo_type, article][1], sub_query_limit,
                 <<>>)

\* a variant of merged_return without _remove_duplicates
merged_without_remove_duplicates(rs) == Slice(rs, merged_limit)

\* return self._remove_duplicates(all_results)[:20]
merged_return(rs) == Slice(_remove_duplicates(rs), merged_limit)

\* all_results.extend(results), and then the next turn of the for loop over
\* queries, up to the first endpoint of its search, or the return
NextSubQuery ==
    /\ op = "search_legislation"
    /\ pc = "returned"
    /\ caller \in {"search_constitution", "search_codigo"}
    /\ all_results' = extend(all_results, ret)
    /\ IF query_i < Len(queries)
       THEN /\ query_i' = query_i + 1
            /\ SubSearch(queries[query_i + 1], sub_query_limit, searched)
            /\ UNCHANGED <<caller, args, queries, document_type, tool,
                           arguments, reply>>
       ELSE /\ op' = caller
            /\ pc' = "done"
            /\ ret' = merged_return(all_results')
            /\ UNCHANGED <<caller, args, queries, query_i, document_type,
                           searched, tool, arguments, reply, self_vars, pure_vars, query, date_from, date_to, limit, url,
                           endpoint_i, dof_results, web_results,
                           known_results, results, content, raised, calls,
                           log, dedup_in>>

(* get_latest_publications(limit) *)

\* the for loops of _parse_latest_publications over the rows of the tables,
\* from row i on; acc is the local results
RECURSIVE parse_latest_loop(_, _, _, _)
parse_latest_loop(rows, i, acc, lim) ==
    IF i > Len(rows) THEN acc
    ELSE LET result == _extract_result_from_element(rows[i])
         IN  IF result # None /\ result[1].url # ""
             THEN LET more == Append(acc, result[1])
                  IN  IF Len(more) >= lim THEN more
                      ELSE parse_latest_loop(rows, i + 1, more, lim)
             ELSE parse_latest_loop(rows, i + 1, acc, lim)

\* _parse_latest_publications(html, limit)
_parse_latest_publications(page, lim) ==
    IF page.bad THEN <<>> ELSE parse_latest_loop(page.rows, 1, <<>>, lim)

\* _get_fallback_latest_publications(limit)
_get_fallback_latest_publications(lim) == Slice(fallback_docs, lim)

\* what _parse_latest_publications makes of a response (nothing when the
\* request raised or the status is not 200)
latest_parsed(resp, lim) ==
    IF resp.error = None /\ resp.status = 200
    THEN _parse_latest_publications(resp.page, lim)
    ELSE <<>>

\* what get_latest_publications returns once the request has ended as resp
get_latest_publications_return(resp, lim) ==
    LET parsed == latest_parsed(resp, lim)
    IN  IF parsed # <<>> THEN parsed ELSE _get_fallback_latest_publications(lim)

\* how the request of get_latest_publications ended
LatestOutcome(resp, lim) ==
    IF resp.error # None THEN "exception"
    ELSE IF resp.status # 200 THEN "status"
    ELSE IF latest_parsed(resp, lim) = <<>> THEN "empty"
    ELSE "results"

\* the sleeps get_latest_publications makes before its request
latest_delay == <<SleepEvent>>

Call_get_latest_publications(lim) ==
    /\ Ready
    /\ Fresh("get_latest_publications", "latest_sleep")
    /\ NoCaller
    /\ NoPureArgs
    /\ NoSearchArgs
    /\ limit' = lim
    /\ url' = ""
    /\ endpoint_i' = 0
    /\ calls' = <<>>

\* time.sleep(self.request_delay)
LatestSleep ==
    /\ op = "get_latest_publications"
    /\ pc = "latest_sleep"
    /\ log' = log \o latest_delay
    /\ pc' = "latest_get"
    /\ UNCHANGED <<self_vars, caller_vars, pure_vars, op, query, date_from, date_to, limit, url, endpoint_i,
                   dof_results, web_results, known_results, results, ret,
                   content, raised, calls, dedup_in>>

\* the request for the home page and all that follows it
LatestGet(resp) ==
    /\ op = "get_latest_publications"
    /\ pc = "latest_get"
    /\ log' = Append(log, GetEvent(searcher.base_url \o "/index.php",
                                   LatestOutcome(resp, limit),
                                   latest_parsed(resp, limit)))
    /\ IF resp.error # None /\ ~except_Exception(resp.error[1])
       THEN raised' = TRUE /\ UNCHANGED ret
       ELSE ret' = get_latest_publications_return(resp, limit) /\ UNCHANGED raised
    /\ pc' = "done"
    /\ UNCHANGED <<self_vars, caller_vars, pure_vars, op, query, date_from, date_to, limit, url, endpoint_i,
                   dof_results, web_results, known_results, results, content,
                   calls, dedup_in>>

(* get_document_content(url) *)

\* A document is what BeautifulSoup makes of the body of a response once
\* the script, style, nav, header, footer and aside elements are removed:
\* texts[k] is the text of the element select_one(content_selectors[k])
\* finds, None when it finds none; whole is the text of the whole soup.
Document(texts, whole) == [texts |-> texts, whole |-> whole]

content_selectors ==
    <<"div[id*=\"contenido\"]", "div[class*=\"contenido\"]",
      "div[class*=\"documento\"]", "div[class*=\"texto\"]", "article",
      ".main-content", "#main", "body">>

\* the content of a text to be used without looking further
substantial_length == 500

\* the for loop over content_selectors, from selector k on; acc is the local
\* content
RECURSIVE select_content(_, _, _)
select_content(doc, k, acc) ==
    IF k > Len(content_selectors) THEN acc
    ELSE IF doc.texts[k] # None
         THEN IF Len(doc.texts[k][1]) > substantial_length THEN doc.texts[k][1]
              ELSE select_content(doc, k + 1, doc.texts[k][1])
         ELSE select_content(doc, k + 1, acc)

\* the content get_document_content hands to the cleaner
extract_content(doc) ==
    LET found == select_content(doc, 1, "")
    IN  IF found = "" THEN doc.whole ELSE found

\* a variant of error_msg that leaves the exception out
error_msg_without_error(u, e) ==
    "\n× ERROR AL OBTENER CONTENIDO DEL DOCUMENTO\n\nURL: " \o u
    \o "\n\nSOLUCIÓN MANUAL:\n1. Abra la URL directamente en su navegador\n"

\* the message get_document_content returns for the exception whose str() is
\* e; "×" stands for the character U+274C
error_msg(u, e) ==
    "\n× ERROR AL OBTENER CONTENIDO DEL DOCUMENTO\n\nURL: " \o u
    \o "\nError: " \o e
    \o "\n\nPOSIBLES CAUSAS:\n1. El documento requiere autenticación\n"
    \o "2. La URL ha cambiado o no existe\n"
    \o "3. El sitio del DOF está bloqueando el acceso automatizado\n"
    \o "4. Problemas de conexión de red\n\nSOLUCIÓN MANUAL:\n"
    \o "Para acceder al contenido completo:\n"
    \o "1. Abra la URL directamente en su navegador\n2. Visite: " \o u
    \o "\n3. Use el sitio oficial: https://www.dof.gob.mx\n\n"

\* what get_document_content gets from its request: the request, or the parse
\* of the response, raised (message is the str() of the exception), or a
\* response came back and was parsed
DocRaises(e, message) ==
    [error |-> Some(e), message |-> message, status |-> 0, reason |-> "",
     doc |-> Document(<<None, None, None, None, None, None, None, None>>, "")]
DocHttp(status, reason, doc) ==
    [error |-> None, message |-> "", status |-> status, reason |-> reason,
     doc |-> doc]

\* response.raise_for_status(): the str() of the HTTPError it raises, None
\* when it raises none
raise_for_status(resp, u) ==
    IF resp.status >= 400 /\ resp.status < 500
    THEN Some(IntToStr(resp.status) \o " Client Error: " \o resp.reason
              \o " for url: " \o u)
    ELSE IF resp.status >= 500 /\ resp.status < 600
    THEN Some(IntToStr(resp.status) \o " Server Error: " \o resp.reason
              \o " for url: " \o u)
    ELSE None

\* what get_document_content(u) returns once its request has ended as resp
get_document_content_return(u, resp) ==
    IF resp.error # None THEN error_msg(u, resp.message)
    ELSE IF raise_for_status(resp, u) # None
    THEN error_msg(u, raise_for_status(resp, u)[1])
    ELSE _clean_document_content(extract_content(resp.doc))

\* how the request of get_document_content ended
ContentOutcome(resp, u) ==
    IF resp.error # None THEN "exception"
    ELSE IF raise_for_status(resp, u) # None THEN "status"
    ELSE "results"

\* the str(e) of the exception the except clause of get_document_content
\* receives, None when the try block ends without one
content_error(resp, u) ==
    IF resp.error # None THEN Some(resp.message)
    ELSE raise_for_status(resp, u)

\* the request of get_document_content, as the log records it, with the
\* str(e) of the exception that ended the try block and, when there was
\* none, the body that came back
ContentGetEvent(u, resp) ==
    [ev |-> "get", url |-> u, outcome |-> ContentOutcome(resp, u),
     parsed |-> <<>>, error |-> content_error(resp, u),
     doc |-> IF content_error(resp, u) = None THEN Some(resp.doc) ELSE None]

\* s repeated 2^n times
RECURSIVE Doubled(_, _)
Doubled(s, n) == IF n = 0 THEN s ELSE Doubled(s \o s, n - 1)

\* a text of more than 500 characters, with mis-decoded accents
LongText ==
    Doubled("ArtÃ­culo 4o.  Toda persona tiene derecho a la protecciÃ³n de la salud.\n ", 3)

\* the first selector finds a substantial text
DocLong ==
    Document(<<Some(LongText), None, None, None, None, None, None,
               Some("Inicio " \o LongText \o " JavaScript is disabled")>>,
             "Inicio " \o LongText \o " JavaScript is disabled")

\* no selector finds a substantial text: two find a short one
DocShort ==
    Document(<<None, Some("Aviso  de privacidad"), None, None, None, None, None,
               Some("MenÃº Aviso  de privacidad Â° cookies de su navegador")>>,
             "MenÃº Aviso  de privacidad Â° cookies de su navegador")

\* no selector finds anything: the body has no body element
DocBare == Document(<<None, None, None, None, None, None, None, None>>,
                    "DIARIO OFICIAL  Ã­ndice")

\* an empty body
DocEmpty == Document(<<None, None, None, None, None, None, None, None>>, "")

\* a fragment without a body element: one selector finds a short text, and
\* the page holds more text than that
DocFragment ==
    Document(<<None, None, None, Some("Aviso de privacidad"), None, None, None,
               None>>,
             "Aviso de privacidad DECRETO por el que se reforma el artículo 4o.")

Documents == {DocLong, DocShort, DocBare, DocEmpty, DocFragment}

ContentResponses ==
    {DocRaises("ConnectionError", "Connection refused"),
     DocRaises("ReadTimeout", "Read timed out. (read timeout=30)"),
     DocRaises("ParserRejectedMarkup",
               "The markup you provided was rejected by the parser."),
     DocHttp(404, "Not Found", DocEmpty),
     DocHttp(503, "Service Unavailable", DocShort)}
    \cup {DocHttp(200, "OK", doc) : doc \in Documents}

DocumentUrls ==
    {"https://www.dof.gob.mx/nota_detalle.php?codigo=5752331&fecha=18/03/2025",
     "http://localhost/documento"}

\* get_document_content_return, tabulated over the arguments of the model
document_contents ==
    [u \in DocumentUrls, resp \in ContentResponses |->
        get_document_content_return(u, resp)]

\* the sleeps get_document_content makes before its request
content_delay == <<SleepEvent>>

Call_get_document_content(u) ==
    /\ Ready
    /\ Fresh("get_document_content", "content_sleep")
    /\ NoCaller
    /\ NoPureArgs
    /\ NoSearchArgs
    /\ limit' = 0
    /\ url' = u
    /\ endpoint_i' = 0
    /\ calls' = <<>>

\* time.sleep(self.request_delay)
ContentSleep ==
    /\ op = "get_document_content"
    /\ pc = "content_sleep"
    /\ log' = log \o content_delay
    /\ pc' = "content_get"
    /\ UNCHANGED <<self_vars, caller_vars, pure_vars, op, query, date_from, date_to, limit, url, endpoint_i,
                   dof_results, web_results, known_results, results, ret,
                   content, raised, calls, dedup_in>>

\* the request for the document and all that follows it
ContentGet(resp) ==
    /\ op = "get_document_content"
    /\ pc = "content_get"
    /\ log' = Append(log, ContentGetEvent(url, resp))
    /\ IF resp.error # None /\ ~except_Exception(resp.error[1])
       THEN raised' = TRUE /\ UNCHANGED content
       ELSE content' = document_contents[url, resp] /\ UNCHANGED raised
    /\ pc' = "done"
    /\ UNCHANGED <<self_vars, caller_vars, pure_vars, op, query, date_from, date_to, limit, url, endpoint_i,
                   dof_results, web_results, known_results, results, ret,
                   calls, dedup_in>>

(* _remove_duplicates(results), called on a list of its own *)

\* a caller starts building the list it will hand to _remove_duplicates
Begin_remove_duplicates ==
    /\ Ready
    /\ Fresh("_remove_duplicates", "argument")
    /\ NoCaller
    /\ NoPureArgs
    /\ NoSearchArgs
    /\ limit' = 0
    /\ url' = ""
    /\ endpoint_i' = 0
    /\ calls' = <<>>

\* the caller appends one more result to that list
DedupArgument(r) ==
    /\ op = "_remove_duplicates"
    /\ pc = "argument"
    /\ Len(dedup_in) < MaxDedupLen
    /\ dedup_in' = Append(dedup_in, r)
    /\ UNCHANGED <<self_vars, caller_vars, pure_vars, op, pc, query, date_from, date_to, limit, url, endpoint_i,
                   dof_results, web_results, known_results, results, ret,
                   content, raised, calls, log>>

\* the call itself
Call_remove_duplicates ==
    /\ op = "_remove_duplicates"
    /\ pc = "argument"
    /\ ret' = _remove_duplicates(dedup_in)
    /\ pc' = "done"
    /\ UNCHANGED <<self_vars, caller_vars, pure_vars, op, query, date_from, date_to, limit, url, endpoint_i,
                   dof_results, web_results, known_results, results, content,
                   raised, calls, log, dedup_in>>

(* get_document_metadata(url) *)

\* the dict get_document_metadata(u) returns; a key the dict does not hold is
\* None in the record
get_document_metadata(u) ==
    [url |-> u, source |-> "DOF", codigo_dof |-> codigo_match(u),
     fecha_publicacion |-> fecha_match(u)]

\* the urls get_document_metadata is called with: both parameters in either
\* order, one of them, none, a parameter without a value, and a parameter
\* given twice
MetadataUrls ==
    {"https://www.dof.gob.mx/nota_detalle.php?codigo=5593045&fecha=08/05/2020",
     "https://www.dof.gob.mx/nota_detalle.php?fecha=18/03/2025&codigo=5752331",
     "https://www.dof.gob.mx/nota_detalle.php?codigo=5752331&fecha=18/03/2025&print=true",
     "https://dof.gob.mx/nota_detalle.php?codigo=123",
     "https://www.dof.gob.mx/index.php?fecha=01/02/2024",
     "https://www.dof.gob.mx/",
     "",
     "https://x/?fecha=&codigo=ab&fecha=1&codigo=7",
     "nota.php?codigo=&fecha=&",
     "nota.php?subcodigo=12a&fecha=a=b"}

\* get_document_metadata, tabulated over the urls of the model
document_metadata == [u \in MetadataUrls |-> get_document_metadata(u)]

Call_get_document_metadata(u) ==
    /\ Ready
    /\ Fresh("get_document_metadata", "done")
    /\ NoCaller
    /\ NoSearchArgs
    /\ limit' = 0
    /\ url' = u
    /\ endpoint_i' = 0
    /\ calls' = <<>>
    /\ clean_in' = ""
    /\ parse_in' = None
    /\ NoReasonerArgs
    /\ metadata' = document_metadata[u]

(* _parse_dof_search_results(html), called on a page of its own *)

\* _parse_dof_search_results, tabulated over the pages of the model
parsed_results == [page \in Pages |-> _parse_dof_search_results(page)]

\* a caller hands the page to _parse_dof_search_results
Call_parse_dof_search_results(page) ==
    /\ Ready
    /\ Fresh("_parse_dof_search_results", "parse")
    /\ NoCaller
    /\ NoSearchArgs
    /\ limit' = 0
    /\ url' = ""
    /\ endpoint_i' = 0
    /\ calls' = <<>>
    /\ clean_in' = ""
    /\ metadata' = <<>>
    /\ NoReasonerArgs
    /\ parse_in' = Some(page)

\* the body of _parse_dof_search_results
Parse ==
    /\ op = "_parse_dof_search_results"
    /\ pc = "parse"
    /\ ret' = parsed_results[parse_in[1]]
    /\ pc' = "done"
    /\ UNCHANGED <<self_vars, caller_vars, pure_vars, op, query, date_from,
                   date_to, limit, url, endpoint_i, dof_results, web_results,
                   known_results, results, content, raised, calls, log,
                   dedup_in>>

(* _clean_document_content(text), called on a text of its own *)

\* the pieces the texts handed to the cleaner are made of: every key of the
\* replacements, the halves of a key that only the cleaning puts together,
\* page furniture with and without spaces around it, white space, and text
\* the cleaner has nothing to do to
CleanerPieces ==
    {replacements[k][1] : k \in 1..Len(replacements)}
    \cup {"Ã", "Â¡", "x", " ", "\n", "ley", " ¿Olvidó su clave?", "¿OLVIDÓ SU",
          "ArtÃÂ­culo 4o.", "Inicio ¿Olvidó su contraseña? Ayuda",
          " JavaScript is disabled en", " cookies de su navegador ",
          "Usuario Clave Entrar usuario"}

\* a caller starts building the text it will hand to _clean_document_content
Begin_clean_document_content ==
    /\ Ready
    /\ Fresh("_clean_document_content", "argument")
    /\ NoCaller
    /\ NoPureArgs
    /\ NoSearchArgs
    /\ limit' = 0
    /\ url' = ""
    /\ endpoint_i' = 0
    /\ calls' = <<>>

\* the caller appends one more piece to that text
CleanArgument(piece) ==
    /\ op = "_clean_document_content"
    /\ pc = "argument"
    /\ Len(clean_in) < MaxCleanLen
    /\ clean_in' = clean_in \o piece
    /\ UNCHANGED <<self_vars, caller_vars, metadata, parse_in, contract_terms,
                   analysis, op, pc, query, date_from, date_to,
                   limit, url, endpoint_i, dof_results, web_results,
                   known_results, results, ret, content, raised, calls, log,
                   dedup_in>>

\* the call itself
Call_clean_document_content ==
    /\ op = "_clean_document_content"
    /\ pc = "argument"
    /\ content' = _clean_document_content(clean_in)
    /\ pc' = "done"
    /\ UNCHANGED <<self_vars, caller_vars, pure_vars, op, query, date_from, date_to,
                   limit, url, endpoint_i, dof_results, web_results,
                   known_results, results, ret, raised, calls, log, dedup_in>>

(* MexicanLegalReasoner.analyze_contract_validity(contract_terms) *)

\* a JSON value handed as contract_terms: a list of strings, or a number
JsonList(items) == [list |-> items]
JsonNumber(n) == [number |-> n]

\* _get_contract_recommendations(issues), from issue i on
RECURSIVE _get_contract_recommendations(_, _)
_get_contract_recommendations(issues, i) ==
    IF i > Len(issues) THEN <<>>
    ELSE (IF Contains(issues[i], "consentimiento")
          THEN <<"Incluir cláusula expresa de aceptación de términos">>
          ELSE <<>>)
         \o (IF Contains(issues[i], "objeto")
             THEN <<"Definir claramente el objeto del contrato">> ELSE <<>>)
         \o _get_contract_recommendations(issues, i + 1)

\* analyze_contract_validity(contract_terms) for a list of strings
analyze_contract_validity(terms) ==
    LET contract_text == Lower(Join(terms, 1, Len(terms), " "))
        consentimiento ==
            AnyKeywordIn(<<"acepto", "convenimos", "acordamos">>, contract_text)
        objeto ==
            AnyKeywordIn(<<"objeto", "prestación", "obligación">>, contract_text)
        causa ==
            AnyKeywordIn(<<"porque", "motivo", "causa", "razón">>, contract_text)
        requirements == [consentimiento |-> consentimiento, objeto |-> objeto,
                         causa |-> causa, forma |-> FALSE]
        validity_issues ==
            (IF consentimiento THEN <<>>
             ELSE <<"Falta expresión clara del consentimiento">>)
            \o (IF objeto THEN <<>>
                ELSE <<"Objeto del contrato no está claramente definido">>)
            \o (IF causa THEN <<>>
                ELSE <<"Causa del contrato no está especificada">>)
        is_valid == (\A k \in DOMAIN requirements : requirements[k])
                    /\ Len(validity_issues) = 0
    IN  [es_valido |-> is_valid,
         requisitos_cumplidos |-> requirements,
         problemas_identificados |-> validity_issues,
         articulos_aplicables |->
             <<"artículo 1794", "artículo 1795", "artículo 1796">>,
         recomendaciones |-> _get_contract_recommendations(validity_issues, 1)]

\* str(e) of the TypeError " ".join(contract_terms) raises when contract_terms
\* is no list of strings, None when it raises none
join_error(value) ==
    IF "list" \in DOMAIN value THEN None
    ELSE Some("can only join an iterable")

\* the contract terms of the model: one with a consent word in capitals, one
\* with an object word, one with a cause word, one with a consent word and a
\* cause word, one with none of them
TermPool ==
    {"ACEPTO los términos de este contrato",
     "El objeto es la compraventa de un inmueble",
     "Se celebra por motivo de mudanza",
     "Convenimos que la causa es la mudanza", "El precio es de 100 pesos"}
ContractTerms == UNION {[1..n -> TermPool] : n \in 0..MaxTerms}

\* analyze_contract_validity, tabulated over the lists of the model
contract_analyses == [terms \in ContractTerms |-> analyze_contract_validity(terms)]

\* the call, up to the body of the method
Call_analyze_contract_validity(value) ==
    /\ Ready
    /\ Fresh("analyze_contract_validity", "analyze")
    /\ NoCaller
    /\ NoSearchArgs
    /\ limit' = 0
    /\ url' = ""
    /\ endpoint_i' = 0
    /\ calls' = <<>>
    /\ clean_in' = ""
    /\ metadata' = <<>>
    /\ parse_in' = None
    /\ contract_terms' = value
    /\ analysis' = None

\* the body of analyze_contract_validity: the TypeError of the join leaves
\* the method
Analyze ==
    /\ op = "analyze_contract_validity"
    /\ pc = "analyze"
    /\ IF join_error(contract_terms) = None
       THEN /\ analysis' = Some(contract_analyses[contract_terms.list])
            /\ raised' = FALSE
       ELSE /\ analysis' = None
            /\ raised' = TRUE
    /\ pc' = IF caller = "" THEN "done" ELSE "returned"
    /\ UNCHANGED <<self_vars, caller_vars, clean_in, metadata, parse_in,
                   contract_terms, op, query, date_from, date_to, limit, url,
                   endpoint_i, dof_results, web_results, known_results,
                   results, ret, content, calls, log, dedup_in>>

(* server.handle_call_tool(name, arguments) *)

NonZeroDigits == {"1", "2", "3", "4", "5", "6", "7", "8", "9"}

\* datetime.strptime(text, "%Y-%m-%d").date(): the date, or str(e) of the
\* ValueError. The format is matched as the regular expression
\* \d\d\d\d-(1[0-2]|0[1-9]|[1-9])-(3[01]|[12]\d|0[1-9]|[1-9]| [1-9])
strptime_ymd(text) ==
    LET c(i) == Char(text, i)
        year_ok == Len(text) >= 5 /\ AllDigits(Str(text, 1, 4)) /\ c(5) = "-"
        m_len == IF /\ \/ c(6) = "1" /\ c(7) \in {"0", "1", "2"}
                       \/ c(6) = "0" /\ c(7) \in NonZeroDigits
                    /\ c(8) = "-"
                 THEN 2
                 ELSE IF c(6) \in NonZeroDigits /\ c(7) = "-" THEN 1 ELSE 0
        p == 7 + m_len
        d_len == IF c(p) = "3" /\ c(p + 1) \in {"0", "1"} THEN 2
                 ELSE IF c(p) \in {"1", "2"} /\ IsDigit(c(p + 1)) THEN 2
                 ELSE IF c(p) = "0" /\ c(p + 1) \in NonZeroDigits THEN 2
                 ELSE IF c(p) \in NonZeroDigits THEN 1
                 ELSE IF c(p) = " " /\ c(p + 1) \in NonZeroDigits THEN 2
                 ELSE 0
        rest == Str(text, p + d_len, Len(text))
    IN  IF ~year_ok \/ m_len = 0 \/ d_len = 0
        THEN [date |-> None,
              error |-> Some("time data '" \o text
                             \o "' does not match format '%Y-%m-%d'")]
        ELSE IF rest # ""
        THEN [date |-> None,
              error |-> Some("unconverted data remains: " \o rest)]
        ELSE LET y == StrToNat(Str(text, 1, 4))
                 m == StrToNat(Str(text, 6, 5 + m_len))
                 d == StrToNat(IF c(p) = " " THEN c(p + 1)
                               ELSE Str(text, p, p + d_len - 1))
             IN  IF y = 0
                 THEN [date |-> None, error |-> Some("year 0 is out of range")]
                 ELSE IF d > DaysIn(y, m)
                 THEN [date |-> None,
                       error |-> Some("day is out of range for month")]
                 ELSE [date |-> Some(<<y, m, d>>), error |-> None]

\* str(KeyError(key))
KeyError(key) == "'" \o key \o "'"

\* the date argument under key: None when the key is absent
date_argument(a, key) ==
    IF key \in DOMAIN a THEN strptime_ymd(a[key])
    ELSE [date |-> None, error |-> None]

\* a variant of search_dof_arguments that leaves a date out when it cannot
\* be parsed
search_dof_arguments_lenient(a) ==
    IF "query" \notin DOMAIN a THEN [error |-> Some(KeyError("query"))]
    ELSE [error |-> None,
          query |-> a.query,
          date_from |-> date_argument(a, "date_from").date,
          date_to |-> date_argument(a, "date_to").date,
          limit |-> IF "limit" \in DOMAIN a THEN a.limit ELSE default_limit]

\* the search_dof branch up to the call of search_legislation: the
\* arguments of that call, or str(e) of the exception raised before it
search_dof_arguments(a) ==
    IF "query" \notin DOMAIN a THEN [error |-> Some(KeyError("query"))]
    ELSE IF date_argument(a, "date_from").error # None
    THEN [error |-> date_argument(a, "date_from").error]
    ELSE IF date_argument(a, "date_to").error # None
    THEN [error |-> date_argument(a, "date_to").error]
    ELSE [error |-> None,
          query |-> a.query,
          date_from |-> date_argument(a, "date_from").date,
          date_to |-> date_argument(a, "date_to").date,
          limit |-> IF "limit" \in DOMAIN a THEN a.limit ELSE default_limit]

\* the for loop of the search_dof branch over enumerate(results, 1), from
\* result i on
RECURSIVE search_dof_lines(_, _)
search_dof_lines(rs, i) ==
    IF i > Len(rs) THEN ""
    ELSE "## " \o IntToStr(i) \o ". " \o rs[i].title \o "\n"
         \o "**Fecha:** " \o rs[i].date \o "\n"
         \o "**Tipo:** " \o rs[i].type \o "\n"
         \o "**URL:** " \o rs[i].url \o "\n"
         \o "**Resumen:** " \o rs[i].summary \o "\n\n"
         \o search_dof_lines(rs, i + 1)

\* the text of the search_dof branch
search_dof_response(rs) ==
    "# Resultados de búsqueda en DOF\n\n" \o search_dof_lines(rs, 1)

\* "- " in front of every item
RECURSIVE Bullets(_, _)
Bullets(items, i) ==
    IF i > Len(items) THEN <<>>
    ELSE <<"- " \o items[i]>> \o Bullets(items, i + 1)

\* chr(10).join(f"- {item}" for item in items)
BulletList(items) == Join(Bullets(items, 1), 1, Len(items), "\n")

\* the text of the analyze_contract_validity branch; "+" stands for the
\* check mark and "×" for the ballot cross of the source
contract_validity_response(result) ==
    LET keys == <<"consentimiento", "objeto", "causa", "forma">>
        marks == [k \in 1..Len(keys) |->
                     keys[k] \o ": "
                     \o (IF result.requisitos_cumplidos[keys[k]] THEN "+"
                         ELSE "×")]
    IN  "# Análisis de Validez Contractual\n\n"
        \o "## Validez del Contrato\n"
        \o "**" \o (IF result.es_valido THEN "VÁLIDO" ELSE "INVÁLIDO") \o "**\n\n"
        \o "## Requisitos Cumplidos\n" \o BulletList(marks) \o "\n\n"
        \o "## Problemas Identificados\n"
        \o BulletList(result.problemas_identificados) \o "\n\n"
        \o "## Artículos Aplicables\n"
        \o BulletList(result.articulos_aplicables) \o "\n\n"
        \o "## Recomendaciones\n" \o BulletList(result.recomendaciones) \o "\n"

\* except Exception as e: return [TextContent(type="text", text=f"Error: {str(e)}")]
error_reply(message) == "Error: " \o message

\* the else branch: return [TextContent(type="text", text=f"Unknown tool: {name}")]
unknown_reply(n) == "Unknown tool: " \o n

\* the calls of handle_call_tool: a name and the arguments dict, for the two
\* branches the model follows into their tools and for names without a branch
ToolCalls ==
    {<<"search_dof", a>> :
        a \in {[limit |-> 2],
               [date_from |-> "junio"],
               [query |-> "Constitución", limit |-> 2],
               [query |-> "ley", date_from |-> "2020-01-01",
                date_to |-> "2020-12-31"],
               [query |-> "ley", date_from |-> "2020-13-01"],
               [query |-> "ley", date_from |-> "2020-01-01",
                date_to |-> "08/05/2020"],
               [query |-> "ley", date_to |-> "2020-02-30", limit |-> 1]}}
    \cup {<<"analyze_contract_validity", a>> :
              a \in {[terms |-> JsonList(<<>>)],
                     [contract_terms |-> JsonNumber(7)],
                     [contract_terms |->
                         JsonList(<<"Convenimos que la causa es la mudanza",
                                    "El objeto es la compraventa de un inmueble">>)],
                     [contract_terms |->
                         JsonList(<<"El precio es de 100 pesos">>)]}}
    \cup {<<"search_scjn", [query |-> "ley"]>>, <<"", [limit |-> 2]>>}

\* the reply the handler gives without calling a tool, None when it calls one
immediate_reply(n, a) ==
    IF n = "search_dof"
    THEN (IF search_dof_arguments(a).error # None
          THEN Some(error_reply(search_dof_arguments(a).error[1])) ELSE None)
    ELSE IF n = "analyze_contract_validity"
    THEN (IF "contract_terms" \notin DOMAIN a
          THEN Some(error_reply(KeyError("contract_terms"))) ELSE None)
    ELSE Some(unknown_reply(n))

\* the call, up to the return when no tool is called, and else up to the
\* first step of the tool
Call_handle_call_tool(n, a) ==
    /\ Ready
    /\ tool' = n
    /\ arguments' = Some(a)
    /\ reply' = immediate_reply(n, a)
    /\ NoMethodCaller
    /\ IF immediate_reply(n, a) # None
       THEN /\ Fresh("handle_call_tool", "done")
            /\ caller' = ""
            /\ NoPureArgs
            /\ NoSearchArgs
            /\ limit' = 0
            /\ endpoint_i' = 0
            /\ calls' = <<>>
       ELSE IF n = "search_dof"
       THEN /\ Fresh("search_legislation", "direct_sleep")
            /\ caller' = "handle_call_tool"
            /\ NoPureArgs
            /\ query' = search_dof_arguments(a).query
            /\ date_from' = search_dof_arguments(a).date_from
            /\ date_to' = search_dof_arguments(a).date_to
            /\ limit' = search_dof_arguments(a).limit
            /\ endpoint_i' = 1
            /\ calls' = <<"_search_dof_direct">>
       ELSE /\ Fresh("analyze_contract_validity", "analyze")
            /\ caller' = "handle_call_tool"
            /\ NoSearchArgs
            /\ limit' = 0
            /\ endpoint_i' = 0
            /\ calls' = <<>>
            /\ clean_in' = ""
            /\ metadata' = <<>>
            /\ parse_in' = None
            /\ contract_terms' = a.contract_terms
            /\ analysis' = None
    /\ url' = ""

\* the tool has returned or raised: the handler formats the reply, or
\* catches the exception
HandlerReturn ==
    /\ pc = "returned"
    /\ caller = "handle_call_tool"
    /\ reply' = IF op = "search_legislation"
                THEN Some(search_dof_response(ret))
                ELSE IF raised
                THEN Some(error_reply(join_error(contract_terms)[1]))
                ELSE Some(contract_validity_response(analysis[1]))
    /\ raised' = FALSE
    /\ op' = caller
    /\ pc' = "done"
    /\ UNCHANGED <<self_vars, pure_vars, caller, args, queries, query_i,
                   all_results, document_type, searched, tool, arguments,
                   query, date_from, date_to, limit, url, endpoint_i,
                   dof_results, web_results, known_results, results, ret,
                   content, calls, log, dedup_in>>

Next ==
    \/ \E q \in Queries, range \in DateRanges, lim \in Limits :
           Call_search_legislation(q, range, lim)
    \/ DirectSleep
    \/ \E resp \in Responses : DirectGet(resp)
    \/ WebStage
    \/ KnownStage
    \/ Return
    \/ \E doc_type \in DocTypes, fragment \in Fragments, lim \in Limits :
           Call_search_by_type(doc_type, fragment, lim)
    \/ ByTypeReturn
    \/ \E article \in Articles : Call_search_constitution(article)
    \/ \E codigo_type \in CodigoTypes, article \in Articles :
           Call_search_codigo(codigo_type, article)
    \/ NextSubQuery
    \/ \E lim \in Limits : Call_get_latest_publications(lim)
    \/ LatestSleep
    \/ \E resp \in Responses : LatestGet(resp)
    \/ \E u \in DocumentUrls : Call_get_document_content(u)
    \/ ContentSleep
    \/ \E resp \in ContentResponses : ContentGet(resp)
    \/ Begin_remove_duplicates
    \/ \E r \in DedupPool : DedupArgument(r)
    \/ Call_remove_duplicates
    \/ \E u \in MetadataUrls : Call_get_document_metadata(u)
    \/ \E page \in Pages : Call_parse_dof_search_results(page)
    \/ Parse
    \/ \E value \in {JsonList(terms) : terms \in ContractTerms}
                     \cup {JsonNumber(7)} :
           Call_analyze_contract_validity(value)
    \/ Analyze
    \/ \E call \in ToolCalls : Call_handle_call_tool(call[1], call[2])
    \/ HandlerReturn
    \/ Begin_clean_document_content
    \/ \E piece \in CleanerPieces : CleanArgument(piece)
    \/ Call_clean_document_content

Spec == Init /\ [][Next]_vars

----------------------------------------------------------------------------
(* Properties of search_legislation.                                       *)

\* the call of the method named has returned (or raised)
Done(method) == op = method /\ pc = "done"

\* the positions of the requests in the log, in order
Gets == Ascending({i \in 1..Len(log) : log[i].ev = "get"})

\* no request of the call came back with status 200 and a parsed result
DirectFailed == \A i \in 1..Len(log) : log[i].ev = "get" => log[i].outcome # "results"

\* C1: for every query, every limit >= 0 and every combination of network
\* outcomes, search_legislation returns at most limit results, also when one
\* page of the direct strategy alone holds more than limit results
LimitRespected == Done("search_legislation") => Len(ret) <= limit

\* a call with limit >= 1 whose direct strategy parsed more than limit results
\* from one page, and that returned limit of them
LimitRespectedWitness ==
    /\ Done("search_legislation")
    /\ limit >= 1
    /\ Len(dof_results) > limit
    /\ Len(ret) = limit

\* what the discovery and knowledge-base strategies produce for the arguments
\* of the call when the direct strategy produced nothing
DiscoveryAlone == search_via_web_engines[query, <<date_from, date_to>>, limit]
KnowledgeAlone ==
    IF Len(DiscoveryAlone) < limit /\ query_has_trigger[query]
    THEN Slice(known_constitutional_documents[query], limit - Len(DiscoveryAlone))
    ELSE <<>>

\* C2: search_legislation never raises, whatever each direct endpoint does
\* (exception, timeout, status other than 200, unparseable page); when no
\* endpoint yields a result the direct strategy contributes nothing, the
\* results of the discovery and knowledge-base strategies are what is
\* returned, and that is the empty list when they find nothing either
FailuresAreContained ==
    op = "search_legislation" =>
        /\ ~raised
        /\ (pc = "done" /\ DirectFailed =>
               /\ dof_results = <<>>
               /\ ret = DiscoveryAlone \o KnowledgeAlone
               /\ (DiscoveryAlone = <<>> /\ KnowledgeAlone = <<>> => ret = <<>>))

\* a call whose three endpoints failed in three ways (a timeout, a status
\* other than 200, an unparseable page) and that still returned results
FailuresAreContainedWitness ==
    /\ Done("search_legislation")
    /\ Len(Gets) = 3
    /\ \E i, j, k \in 1..Len(log) :
           /\ log[i].ev = "get" /\ log[i].outcome = "exception"
           /\ log[j].ev = "get" /\ log[j].outcome = "status"
           /\ log[k].ev = "get" /\ log[k].outcome = "empty"
    /\ ret # <<>>

\* every request of the call raised or came back with a status other than 200
EveryFetchFailed ==
    \A i \in 1..Len(log) :
        log[i].ev = "get" => log[i].outcome \in {"exception", "status"}

\* C3: with every network fetch failing, search_legislation("constitución
\* artículo 4") with limit >= 1 returns at least one result, and every result
\* it returns has a non-empty title and a non-empty url
OfflineConstitutionSearch ==
    /\ Done("search_legislation")
    /\ query = "constitución artículo 4"
    /\ limit >= 1
    /\ EveryFetchFailed
    => /\ Len(ret) >= 1
       /\ \A i \in 1..Len(ret) : ret[i].title # "" /\ ret[i].url # ""

\* such a call: all three endpoints were tried, each request raised
OfflineConstitutionSearchWitness ==
    /\ Done("search_legislation")
    /\ query = "constitución artículo 4"
    /\ limit >= 1
    /\ Len(Gets) = 3
    /\ \A i \in 1..Len(log) : log[i].ev = "get" => log[i].outcome = "exception"
    /\ Len(ret) >= 1

\* C4: if the direct strategy returns at least limit results, then within
\* that call neither _search_via_web_engines nor
\* _get_known_constitutional_documents is invoked
ShortCircuit ==
    /\ op = "search_legislation"
    /\ pc \in {"known", "return", "done"}
    /\ Len(dof_results) >= limit
    => calls = <<"_search_dof_direct">>

\* a finished call whose direct strategy returned exactly limit >= 1 results,
\* for a query that holds a trigger term of the knowledge base
ShortCircuitWitness ==
    /\ Done("search_legislation")
    /\ limit >= 1
    /\ Len(dof_results) = limit
    /\ query_has_trigger[query]
    /\ calls = <<"_search_dof_direct">>

\* C5: within one run of the direct strategy the endpoints are requested one
\* after another in their configured order, each at most once; no endpoint is
\* requested after the first that answered 200 with at least one parsed
\* result, and the results of that endpoint are the output of the strategy
EndpointsInOrder ==
    op = "search_legislation" =>
        /\ Len(Gets) <= Len(search_endpoints)
        /\ \A k \in 1..Len(Gets) :
               /\ log[Gets[k]].url = search_endpoints[k]
               /\ (k < Len(Gets) => log[Gets[k]].outcome # "results")
        /\ (pc \in {"web", "known", "return", "done"} =>
               IF Gets # <<>> /\ log[Gets[Len(Gets)]].outcome = "results"
               THEN dof_results = log[Gets[Len(Gets)]].parsed
               ELSE Len(Gets) = Len(search_endpoints) /\ dof_results = <<>>)

\* a run in which the first endpoint failed, the second answered with
\* results and the third was never requested
EndpointsInOrderWitness ==
    /\ Done("search_legislation")
    /\ Len(Gets) = 2
    /\ log[Gets[1]].outcome = "exception"
    /\ log[Gets[2]].outcome = "results"
    /\ dof_results # <<>>

\* C6: every network request the searcher issues (each attempt of a direct
\* search endpoint, the request of get_document_content, the request of
\* get_latest_publications) is immediately preceded by one sleep of
\* request_delay seconds of its own, on a first attempt as after a failure
DelayBeforeEveryRequest ==
    \A i \in 1..Len(log) :
        log[i].ev = "get" =>
            /\ i > 1
            /\ log[i - 1] = [ev |-> "sleep", secs |-> request_delay]
            /\ (i > 2 => log[i - 2].ev = "get")

\* a search that made three requests, the later two after a failure, with a
\* sleep before each
DelayBeforeEveryRequestWitness ==
    /\ Done("search_legislation")
    /\ Len(Gets) = 3
    /\ Len(log) = 6
    /\ \A k \in 1..3 : log[2 * k - 1].ev = "sleep" /\ log[2 * k].ev = "get"

\* xs[i..] is a subsequence of ys[j..]
RECURSIVE IsSubseqFrom(_, _, _, _)
IsSubseqFrom(xs, i, ys, j) ==
    IF i > Len(xs) THEN TRUE
    ELSE IF j > Len(ys) THEN FALSE
    ELSE IF xs[i] = ys[j] THEN IsSubseqFrom(xs, i + 1, ys, j + 1)
    ELSE IsSubseqFrom(xs, i, ys, j + 1)

IsSubseq(xs, ys) == IsSubseqFrom(xs, 1, ys, 1)

\* C7: the list search_legislation returns is in stage order (the results of
\* the direct strategy, then those of the discovery strategy, then those of
\* the knowledge base), and it is the concatenation of the stages,
\* deduplicated and then cut to limit
StageOrder ==
    Done("search_legislation") =>
        /\ \E a, b \in 0..Len(ret) :
               /\ a <= b
               /\ IsSubseq(SubSeq(ret, 1, a), dof_results)
               /\ IsSubseq(SubSeq(ret, a + 1, b), web_results)
               /\ IsSubseq(SubSeq(ret, b + 1, Len(ret)), known_results)
        /\ ret = Slice(_remove_duplicates(
                           dof_results \o web_results
                           \o Slice(known_results,
                                    limit - Len(dof_results) - Len(web_results))),
                       limit)

\* a call to which each of the three stages contributed a result
StageOrderWitness ==
    /\ Done("search_legislation")
    /\ Len(ret) = 3
    /\ ret[1] \in Range(dof_results)
    /\ ret[2] \in Range(web_results)
    /\ ret[3] \in Range(known_results)

----------------------------------------------------------------------------
(* Properties of _remove_duplicates.                                       *)

\* the positions of xs that hold the first item of their key
FirstOfKey(xs) ==
    {i \in 1..Len(xs) : \A j \in 1..(i - 1) : dedup_key(xs[j]) # dedup_key(xs[i])}

\* C8: _remove_duplicates(X) is the subsequence of X that keeps, for each
\* dedup key, exactly the first item of X with that key, the items that
\* survive being in the order in which they were first seen
FirstOccurrenceWins ==
    Done("_remove_duplicates") => ret = Pick(dedup_in, 1, FirstOfKey(dedup_in))

\* a list whose third item has the key of the first without being equal to
\* it, and whose second item has another key
FirstOccurrenceWinsWitness ==
    /\ Done("_remove_duplicates")
    /\ Len(dedup_in) = 3
    /\ dedup_in[3] # dedup_in[1]
    /\ dedup_key(dedup_in[3]) = dedup_key(dedup_in[1])
    /\ dedup_key(dedup_in[2]) # dedup_key(dedup_in[1])
    /\ ret = <<dedup_in[1], dedup_in[2]>>

\* C9: deduplication is idempotent: _remove_duplicates(_remove_duplicates(X))
\* equals _remove_duplicates(X)
DedupIdempotent ==
    Done("_remove_duplicates") => _remove_duplicates(ret) = ret

\* a list of three items of one key
DedupIdempotentWitness ==
    /\ Done("_remove_duplicates")
    /\ Len(dedup_in) = 3
    /\ \A i \in 1..3 : dedup_key(dedup_in[i]) = dedup_key(dedup_in[1])
    /\ Len(ret) = 1

\* the lowercased urls are equal and the lowercased titles are equal
SameUrlAndTitle(a, b) ==
    Lower(a.url) = Lower(b.url) /\ Lower(a.title) = Lower(b.title)

\* C10: two results are collapsed by _remove_duplicates exactly when their
\* lowercased urls are equal and their lowercased titles are equal, for any
\* url and title, also ones that hold the separator "|"
CollapsedIffSameUrlAndTitle ==
    Done("_remove_duplicates") =>
        ret = Pick(dedup_in, 1,
                   {i \in 1..Len(dedup_in) :
                       \A j \in 1..(i - 1) : ~SameUrlAndTitle(dedup_in[j], dedup_in[i])})

----------------------------------------------------------------------------
(* Properties of the result extractor.                                     *)

\* the results the extractor made of the pages fetched during the call, for
\* _parse_dof_search_results and for _parse_latest_publications
Extracted ==
    UNION {Range(log[i].parsed) :
              i \in {j \in 1..Len(log) : log[j].ev = "get" /\ op # "get_document_content"}}

\* C11: no result produced by the HTML extraction has a title shorter than 5
\* characters, an empty title, or a title that holds a token of the page
\* furniture in any case; an element whose only text is "Usuario" is dropped
ExtractedTitlesAreFiltered ==
    \A r \in Extracted :
        /\ r.title # ""
        /\ Len(r.title) >= 5
        /\ ~Contains(Lower(r.title), "usuario")

\* absolute: the url names its scheme and host
IsAbsoluteUrl(u) == StartsWith(u, "http://") \/ StartsWith(u, "https://")

\* C12: every result produced by the HTML extraction has an absolute url: an
\* absolute href is kept, every other href is joined onto
\* https://www.dof.gob.mx, so that "/nota_detalle.php?codigo=123" gives
\* "https://www.dof.gob.mx/nota_detalle.php?codigo=123"
ExtractedUrlsAreAbsolute ==
    \A r \in Extracted : IsAbsoluteUrl(r.url)

(* Properties of get_document_content *)

\* the request of the call of get_document_content that has returned
ContentRequest == log[Len(log)]

\* C13: get_document_content lets no exception reach its caller, whether the
\* request, the status check or the parse failed; when one of them failed the
\* string it returns holds the url and the text of the error
ContentFailuresAreReported ==
    op = "get_document_content" =>
        /\ ~raised
        /\ pc = "done" =>
              /\ content \in STRING
              /\ ContentRequest.error # None =>
                    /\ Contains(content, url)
                    /\ Contains(content, ContentRequest.error[1])

ContentFailuresAreReportedWitness ==
    /\ Done("get_document_content")
    /\ ContentRequest.outcome = "status"
    /\ Contains(content, "404 Client Error: Not Found for url: " \o url)

(* Properties of the content cleaner *)

\* C14: the cleaner is idempotent: cleaning a text it has cleaned changes
\* nothing, also when the text holds adjacent or nested garbled sequences or
\* page furniture with spaces around it
CleanerIdempotent ==
    Done("_clean_document_content") =>
        _clean_document_content(content) = content

\* C15: the text the cleaner returns holds no two white-space characters in
\* a row
NoWhitespaceRun ==
    Done("_clean_document_content") =>
        \A i \in 1..(Len(content) - 1) :
            ~(IsSpace(Char(content, i)) /\ IsSpace(Char(content, i + 1)))

\* C16: for every entry of the repair table, cleaning a text that is the
\* garbled sequence gives the repaired character; the garbled sequence of
\* "ñ" gives "ñ"
EveryRepairApplies ==
    Done("_clean_document_content") =>
        \A k \in 1..Len(replacements) :
            clean_in = replacements[k][1] => content = replacements[k][2]

(* Properties of get_document_metadata *)

\* v is the digit run that follows a "codigo=" at position i of u
CodigoAt(u, i, v) ==
    /\ v # ""
    /\ Str(u, i, i + 6 + Len(v)) = "codigo=" \o v
    /\ AllDigits(v)
    /\ ~IsDigit(Char(u, i + 7 + Len(v)))

\* v is the text between a "fecha=" at position i of u and the next "&", or
\* the end of u
FechaAt(u, i, v) ==
    /\ v # ""
    /\ Str(u, i, i + 5 + Len(v)) = "fecha=" \o v
    /\ ~Contains(v, "&")
    /\ i + 5 + Len(v) = Len(u) \/ Char(u, i + 6 + Len(v)) = "&"

\* C17: get_document_metadata(url) returns a mapping with the url and the
\* source "DOF"; it holds codigo_dof, the digit run after "codigo=", exactly
\* when the url has one, and fecha_publicacion, the text from "fecha=" to the
\* next "&", exactly when the url has one; the url with
\* codigo=5593045&fecha=08/05/2020 gives "5593045" and "08/05/2020"
MetadataFromUrl ==
    Done("get_document_metadata") =>
        /\ metadata.url = url
        /\ metadata.source = "DOF"
        /\ metadata.codigo_dof # None <=>
               \E i \in 1..Len(url) : \E n \in 1..Len(url) :
                   CodigoAt(url, i, Str(url, i + 7, i + 6 + n))
        /\ metadata.codigo_dof # None =>
               \E i \in 1..Len(url) : CodigoAt(url, i, metadata.codigo_dof[1])
        /\ metadata.fecha_publicacion # None <=>
               \E i \in 1..Len(url) : \E n \in 1..Len(url) :
                   FechaAt(url, i, Str(url, i + 6, i + 5 + n))
        /\ metadata.fecha_publicacion # None =>
               \E i \in 1..Len(url) :
                   FechaAt(url, i, metadata.fecha_publicacion[1])
        /\ Contains(url, "codigo=5593045&fecha=08/05/2020") =>
               /\ metadata.codigo_dof = Some("5593045")
               /\ metadata.fecha_publicacion = Some("08/05/2020")

MetadataFromUrlWitness ==
    /\ Done("get_document_metadata")
    /\ Contains(url, "fecha=18/03/2025&codigo=5752331")
    /\ metadata.codigo_dof = Some("5752331")
    /\ metadata.fecha_publicacion = Some("18/03/2025")

(* Properties of get_latest_publications *)

\* C19: get_latest_publications(limit) returns at most limit results for
\* every limit >= 0, whether they were parsed from the home page or come
\* from the static fallback list
LatestLimitRespected ==
    Done("get_latest_publications") => Len(ret) <= limit

(* Properties of search_by_type *)

\* the fragment search_by_type was given, "" when it was given none
Fragment == IF args[2] = None THEN "" ELSE args[2][1]

\* the query search_by_type passes on is its label, a space and the fragment,
\* or the label alone when there is no fragment
QueryIsLabelAndFragment ==
    query = IF Fragment # "" THEN document_type[1] \o " " \o Fragment
            ELSE document_type[1]

\* the label of a doc_type that reads token when put in lower case
LabelOf(token, doc_type) ==
    IF token = "norma" THEN "NORMA Oficial Mexicana"
    ELSE IF token \in {"constitución", "constitucional"} THEN "CONSTITUCIÓN"
    ELSE IF token \in {"código", "codigo"} THEN "CÓDIGO"
    ELSE Upper(doc_type)

\* C18 as stated: search_by_type maps doc_type, whatever its case, to a label
\* that is always upper case, and passes on the label, a space and the
\* fragment, or the label alone
ByTypeLabelIsUppercase ==
    caller = "search_by_type" =>
        /\ document_type # None
        /\ document_type[1] = Upper(document_type[1])
        /\ QueryIsLabelAndFragment

\* C18 amended: search_by_type maps doc_type, whatever its case, to a label:
\* "norma" to "NORMA Oficial Mexicana", the other tokens of the table to
\* their upper-case label, any other doc_type to itself in upper case; the
\* query it passes to search_legislation, with its limit, is the label, a
\* space and the fragment when the fragment is not empty, else the label
ByTypeLabelAndQuery ==
    caller = "search_by_type" =>
        /\ document_type = Some(LabelOf(Lower(args[1]), args[1]))
        /\ Lower(args[1]) # "norma" => document_type[1] = Upper(document_type[1])
        /\ QueryIsLabelAndFragment
        /\ searched = <<query>>
        /\ limit = args[3]

ByTypeLabelAndQueryWitness ==
    /\ Done("search_by_type")
    /\ args[1] = "Norma"
    /\ query = "NORMA Oficial Mexicana aguas nacionales"

(* Properties of search_constitution and search_codigo *)

\* the items of rs that no earlier item equals in lowercased url and title
FirstSeen(rs) ==
    Pick(rs, 1, {i \in 1..Len(rs) :
                    \A j \in 1..(i - 1) : ~SameUrlAndTitle(rs[j], rs[i])})

\* C20: search_constitution with an article gives search_legislation its four
\* phrasings in their order, and search_codigo its own; each returns the
\* results of its searches merged: no two of them have the same lowercased
\* url and title, they are in the order in which they were first seen, and
\* there are at most 20
MergedSearches ==
    caller \in {"search_constitution", "search_codigo"} =>
        /\ searched = SubSeq(queries, 1, query_i)
        /\ op = "search_legislation" => query = queries[query_i] /\ limit = 5
        /\ (caller = "search_constitution" /\ args[1] = Some("4")) =>
               queries = << "Constitución Política artículo 4",
                            "CPEUM artículo 4",
                            "artículo 4 constitucional",
                            "reforma artículo 4 constitución" >>
        /\ pc = "done" =>
               /\ searched = queries
               /\ \A i, j \in 1..Len(ret) :
                      i # j => ~SameUrlAndTitle(ret[i], ret[j])
               /\ ret = Slice(FirstSeen(all_results), 20)
               /\ Len(ret) <= 20

\* the four searches of search_constitution found results more than once
MergedSearchesWitness ==
    /\ Done("search_constitution")
    /\ Len(searched) = 4
    /\ Len(ret) > 1
    /\ Len(ret) < Len(all_results)

----------------------------------------------------------------------------
(* Properties of the searcher as a whole.                                  *)

\* the last request of the call
LastRequest == log[Len(log)]

\* what a search returns, from its arguments and the answer to its last
\* request alone
SearchFromRequests ==
    LET direct == IF LastRequest.outcome = "results" THEN LastRequest.parsed
                  ELSE <<>>
        web == IF Len(direct) < limit
               THEN search_via_web_engines[query, <<date_from, date_to>>,
                                           limit - Len(direct)]
               ELSE <<>>
        known == IF Len(direct) + Len(web) < limit /\ query_has_trigger[query]
                 THEN Slice(known_constitutional_documents[query],
                            limit - Len(direct) - Len(web))
                 ELSE <<>>
    IN  Slice(_remove_duplicates(direct \o web \o known), limit)

\* the cleaned text of each document of the model
cleaned_documents ==
    [doc \in Documents |-> _clean_document_content(extract_content(doc))]

\* C21: the searcher is stateless across calls: what a search, a
\* latest-publications, a content or a metadata call returns is a function of
\* its arguments and of the answers to its own requests, whatever calls were
\* made before it, and no call changes the endpoints, the base url or the
\* delay of the searcher
Stateless ==
    /\ searcher = [base_url |-> "https://www.dof.gob.mx", request_delay |-> 3,
                   search_endpoints |->
                       << "https://www.dof.gob.mx/busquedas.php",
                          "https://www.dof.gob.mx/busquedaAvanzada.php",
                          "https://www.dof.gob.mx/busqueda.php" >>]
    /\ Done("search_legislation") => ret = SearchFromRequests
    /\ Done("get_latest_publications") =>
           ret = IF LastRequest.parsed # <<>> THEN LastRequest.parsed
                 ELSE Slice(fallback_docs, limit)
    /\ Done("get_document_content") =>
           content = IF LastRequest.doc # None
                     THEN cleaned_documents[LastRequest.doc[1]]
                     ELSE error_msg(url, LastRequest.error[1])
    /\ Done("get_document_metadata") => metadata = get_document_metadata(url)

\* a latest-publications call that found the home page, made right after a
\* search
StatelessWitness ==
    /\ Done("get_latest_publications")
    /\ earlier = "search_legislation"
    /\ LastRequest.outcome = "results"
    /\ Len(ret) = limit

----------------------------------------------------------------------------
(* Properties of the discovery strategy and of the knowledge base.         *)

\* text holds one of the words of the query of the call, both in lower case
OverlapsQuery(text) ==
    LET words == Split(Lower(query))
    IN  \E i \in 1..Len(words) : Contains(Lower(text), words[i])

\* the entries of the known-url table whose title overlaps the query
MatchingUrls ==
    Pick(known_urls, 1,
         {i \in 1..Len(known_urls) : OverlapsQuery(known_urls[i].title)})

\* the urls of the results rs
UrlsOf(rs) == [i \in 1..Len(rs) |-> rs[i].url]

\* C22: the discovery strategy contributes an entry of the known-url table
\* exactly when the lowercased title of the entry holds a word of the
\* lowercased query of the user, in table order and no more than the limit
\* still leaves room for
DiscoveryByQueryWords ==
    (op = "search_legislation" /\ pc \in {"known", "return", "done", "returned"}
        /\ Len(dof_results) < limit) =>
        UrlsOf(web_results) = UrlsOf(Slice(MatchingUrls, limit - Len(dof_results)))

\* text holds one of the words of q, both in lower case
Overlaps(q, text) ==
    LET words == Split(Lower(q))
    IN  \E i \in 1..Len(words) : Contains(Lower(text), words[i])

\* for each query, the static records whose title or summary overlaps it
matching_records ==
    [q \in AllQueries |->
        Pick(constitutional_docs, 1,
             {i \in 1..Len(constitutional_docs) :
                 \/ Overlaps(q, constitutional_docs[i].title)
                 \/ Overlaps(q, constitutional_docs[i].summary)})]

\* the queries that hold a trigger term
trigger_queries ==
    {q \in AllQueries :
        \E term \in {"constitución", "artículo 4", "constitucional"} :
            Contains(Lower(q), term)}

\* the number of results the first two strategies gathered
Gathered == Len(dof_results) + Len(web_results)

\* what the knowledge base added to results
KnownContribution == SubSeq(results, Gathered + 1, Len(results))

\* C23: the knowledge base contributes nothing for a query without a trigger
\* term; for a query with one, while fewer than limit results are gathered,
\* it contributes the static records whose lowercased title or summary holds
\* a word of the lowercased query, in table order, no more than the limit
\* still leaves room for
KnowledgeByTriggerAndWords ==
    (op = "search_legislation" /\ pc \in {"return", "done", "returned"}) =>
        /\ Len(results) >= Gathered
        /\ query \notin trigger_queries => KnownContribution = <<>>
        /\ (query \in trigger_queries /\ Gathered < limit) =>
               KnownContribution =
                   Slice(matching_records[query], limit - Gathered)

\* a query with a trigger term for which the limit cuts the matching records
KnowledgeByTriggerAndWordsWitness ==
    /\ Done("search_legislation")
    /\ query \in trigger_queries
    /\ KnownContribution # <<>>
    /\ Len(KnownContribution) < Len(matching_records[query])
    /\ Gathered > 0

----------------------------------------------------------------------------
(* Properties of _parse_dof_search_results.                                *)

\* the patterns that match an element of the page, and the first of them
MatchingPatterns(page) == {k \in 1..4 : page.sel[k] # <<>>}
FirstMatching(page) ==
    CHOOSE k \in MatchingPatterns(page) : \A n \in MatchingPatterns(page) : k <= n

\* C24: _parse_dof_search_results uses the first of its patterns, in their
\* order, that matches an element, and no other: its results are those of
\* the elements of that pattern, also when these give none and a later
\* pattern matches elements that would
FirstMatchingPatternOnly ==
    Done("_parse_dof_search_results") =>
        LET page == parse_in[1]
        IN  /\ MatchingPatterns(page) = {} => ret = <<>>
            /\ MatchingPatterns(page) # {} =>
                   /\ ret = extract_all(page.sel[FirstMatching(page)], 1)
                   /\ Len(ret) <= Len(page.sel[FirstMatching(page)])

\* the first pattern that matches gives no result, a later one would
FirstMatchingPatternOnlyWitness ==
    /\ Done("_parse_dof_search_results")
    /\ ret = <<>>
    /\ \E k \in MatchingPatterns(parse_in[1]) :
           /\ k > FirstMatching(parse_in[1])
           /\ extract_all(parse_in[1].sel[k], 1) # <<>>

----------------------------------------------------------------------------
(* Properties of the content and of the summaries.                         *)

\* the selectors whose text in doc is longer than 500 characters
Substantial(doc) ==
    {k \in 1..Len(doc.texts) : doc.texts[k] # None /\ Len(doc.texts[k][1]) > 500}

\* C25: on a successful fetch get_document_content returns the cleaned text
\* of the first selector, in their order, whose text is longer than 500
\* characters, and the cleaned text of the whole page when there is none
SubstantialOrWholePage ==
    (Done("get_document_content") /\ LastRequest.doc # None) =>
        LET doc == LastRequest.doc[1]
        IN  content = _clean_document_content(
                IF Substantial(doc) # {}
                THEN doc.texts[CHOOSE k \in Substantial(doc) :
                                  \A n \in Substantial(doc) : k <= n][1]
                ELSE doc.whole)

\* the elements of the pattern _parse_dof_search_results uses that hold a link
Linked(page) ==
    IF page.bad \/ MatchingPatterns(page) = {} THEN <<>>
    ELSE LET elements == page.sel[FirstMatching(page)]
         IN  Pick(elements, 1, {i \in 1..Len(elements) : elements[i].href # None})

\* the cells of an element that are long enough to serve as its summary
LongCells(element) ==
    {i \in 1..Len(element.cells) : Len(element.cells[i]) > 50}
SummarySource(element) ==
    element.cells[CHOOSE i \in LongCells(element) :
                     \A j \in LongCells(element) : i <= j]

\* C26 as stated: the summary of every result produced by HTML extraction is
\* at most 200 characters long, and a source text of at most 200 characters
\* is kept unchanged
SummaryAtMost200 ==
    Done("_parse_dof_search_results") =>
        /\ Len(ret) = Len(Linked(parse_in[1]))
        /\ \A i \in 1..Len(ret) :
               LET element == Linked(parse_in[1])[i]
               IN  /\ Len(ret[i].summary) <= 200
                   /\ (LongCells(element) # {}
                          /\ Len(SummarySource(element)) <= 200) =>
                         ret[i].summary = SummarySource(element)

\* C26: the summary of every result produced by HTML extraction is at most
\* 203 characters long: it is empty when no cell of the element holds more
\* than 50 characters, and otherwise made of the first such cell, which is
\* kept unchanged when it holds at most 200 characters and cut to its first
\* 200 characters followed by "..." when it holds more
SummaryBounded ==
    Done("_parse_dof_search_results") =>
        /\ Len(ret) = Len(Linked(parse_in[1]))
        /\ \A i \in 1..Len(ret) :
               LET element == Linked(parse_in[1])[i]
                   summary == ret[i].summary
               IN  /\ Len(summary) <= 203
                   /\ LongCells(element) = {} => summary = ""
                   /\ LongCells(element) # {} =>
                         LET text == SummarySource(element)
                         IN  /\ Len(text) <= 200 => summary = text
                             /\ Len(text) > 200 =>
                                   /\ Len(summary) = 203
                                   /\ Slice(summary, 200) = Slice(text, 200)
                                   /\ summary = Slice(text, 200) \o "..."

\* a page was parsed that gave a cut summary and an unchanged one
SummaryBoundedWitness ==
    /\ Done("_parse_dof_search_results")
    /\ \E i, j \in 1..Len(ret) :
           /\ Len(ret[i].summary) = 203
           /\ Len(SummarySource(Linked(parse_in[1])[i])) > 203
           /\ ret[j].summary # ""
           /\ ret[j].summary = SummarySource(Linked(parse_in[1])[j])

----------------------------------------------------------------------------
(* Properties of the whole search.                                         *)

\* what the last two strategies find for the arguments of the call when
\* they are given all the room: the entries of the discovery table and, for
\* a query with a trigger term, the records of the knowledge base
FurtherMatches ==
    Range(search_via_web_engines[query, <<date_from, date_to>>, sub_query_limit])
    \cup (IF query_has_trigger[query]
          THEN Range(known_constitutional_documents[query]) ELSE {})

\* C28: search_legislation returns fewer than limit results only when no
\* further distinct match exists: when an entry of the discovery table or a
\* record of the knowledge base that matches the query is absent from the
\* output, the output holds limit results; duplicates among the results of
\* an earlier stage take no room from a later one
FewerOnlyWhenExhausted ==
    Done("search_legislation") =>
        \A r \in FurtherMatches :
            (\A i \in 1..Len(ret) : dedup_key(ret[i]) # dedup_key(r))
                => Len(ret) = limit

\* the date D/M/YYYY a string begins with, as <<year, month, day>>
ParseDMY(text) ==
    LET a == DigitRun(text, 1)
        b == DigitRun(text, a + 2)
    IN  <<StrToNat(Str(text, a + b + 3, a + b + 6)),
          StrToNat(Str(text, a + 2, a + 1 + b)),
          StrToNat(Str(text, 1, a))>>

\* the publication date of a result, None when the result tells none
KnownDate(result) ==
    IF result.publication_date # None THEN result.publication_date
    ELSE IF date_match(result.date) THEN Some(ParseDMY(result.date))
    ELSE None

\* d is not after e
NotAfter(d, e) ==
    \/ d[1] < e[1]
    \/ d[1] = e[1] /\ d[2] < e[2]
    \/ d[1] = e[1] /\ d[2] = e[2] /\ d[3] <= e[3]

\* C29: when search_legislation is called with both date_from and date_to,
\* every result it returns whose date is known was published within
\* [date_from, date_to], whichever strategy contributed it
ResultsWithinDateRange ==
    (Done("search_legislation") /\ date_from # None /\ date_to # None) =>
        \A i \in 1..Len(ret) :
            KnownDate(ret[i]) # None =>
                /\ NotAfter(date_from[1], KnownDate(ret[i])[1])
                /\ NotAfter(KnownDate(ret[i])[1], date_to[1])

----------------------------------------------------------------------------
(* Properties of the contract analysis.                                    *)

\* the joined, lowercased terms of the call hold a word of each requirement
HoldsAllThreeWords ==
    LET contract_text ==
            Lower(Join(contract_terms.list, 1, Len(contract_terms.list), " "))
    IN  /\ \E w \in {"acepto", "convenimos", "acordamos"} :
               Contains(contract_text, w)
        /\ \E w \in {"objeto", "prestación", "obligación"} :
               Contains(contract_text, w)
        /\ \E w \in {"porque", "motivo", "causa", "razón"} :
               Contains(contract_text, w)

\* C30: analyze_contract_validity reports es_valido = true exactly when it
\* identifies no validity problem, that is, whenever the joined contract
\* terms hold a consent word, an object word and a cause word; the reported
\* validity always agrees with problemas_identificados being empty
ValidIffNoProblem ==
    (Done("analyze_contract_validity") /\ analysis # None) =>
        /\ analysis[1].es_valido = (analysis[1].problemas_identificados = <<>>)
        /\ analysis[1].es_valido = HoldsAllThreeWords

----------------------------------------------------------------------------
(* Properties of the dispatch handler.                                     *)

\* the names handle_call_tool has a branch for
ToolNames ==
    {"search_dof", "get_dof_document", "search_by_document_type",
     "get_latest_publications", "generate_amparo", "generate_contract",
     "generate_lawsuit", "analyze_legal_case", "check_constitutional_rights",
     "analyze_contract_validity", "assess_criminal_liability"}

\* the texts YYYY-MM-DD of the days of the years the model's dates lie in
CalendarDates ==
    UNION {{StrfYMD(<<ym[1], ym[2], d>>) : d \in 1..DaysIn(ym[1], ym[2])} :
              ym \in (2019..2021) \X (1..12)}

\* the search_dof arguments lack the query or hold a date that is none
Rejected(a) ==
    \/ "query" \notin DOMAIN a
    \/ "date_from" \in DOMAIN a /\ a.date_from \notin CalendarDates
    \/ "date_to" \in DOMAIN a /\ a.date_to \notin CalendarDates

\* C27: handle_call_tool never raises: an unknown tool name yields the text
\* "Unknown tool: <name>", an exception (a missing required argument, a date
\* string that cannot be parsed, a failure inside a tool) yields one text
\* reply that starts with "Error: ", and for search_dof a missing query or an
\* unparseable date_from or date_to is rejected before search_legislation is
\* invoked
HandlerNeverRaises ==
    /\ op = "handle_call_tool" => pc = "done" /\ ~raised /\ reply # None
    /\ (caller = "handle_call_tool" /\ op = "search_legislation") =>
           /\ ~Rejected(arguments[1])
           /\ query = arguments[1].query
    /\ Done("handle_call_tool") =>
           LET a == arguments[1]
           IN  /\ tool \notin ToolNames => reply[1] = "Unknown tool: " \o tool
               /\ (tool = "search_dof" /\ Rejected(a)) =>
                      /\ StartsWith(reply[1], "Error: ")
                      /\ calls = <<>>
                      /\ log = <<>>
               /\ (tool = "search_dof" /\ ~Rejected(a)) =>
                      reply[1] = search_dof_response(ret)
               /\ (/\ tool = "analyze_contract_validity"
                   /\ \/ "contract_terms" \notin DOMAIN a
                      \/ "list" \notin DOMAIN a.contract_terms) =>
                      StartsWith(reply[1], "Error: ")

\* a search_dof call with a query and a date that cannot be parsed was
\* answered
HandlerNeverRaisesWitness ==
    /\ Done("handle_call_tool")
    /\ tool = "search_dof"
    /\ "query" \in DOMAIN arguments[1]
    /\ Rejected(arguments[1])
    /\ StartsWith(reply[1], "Error: ")

====
